---- MODULE Spec2Model ----
(***************************************************************************)
(* Data-consistency core of the LykeChat backend: follow/unfollow,         *)
(* like/unlike, story views, story listings with the story cache, and the  *)
(* comment counters.  Every handler is split at its awaits (the durable    *)
(* store calls); the synchronous code after an await belongs to the same   *)
(* step.  Documents are loaded into a request-local copy and written back  *)
(* by Mongoose's save(): a push is sent as $push, a splice as $set of the  *)
(* whole array guarded by the version key __v (VersionError on mismatch),  *)
(* a changed scalar as $set of the local value.  Also modelled: comment    *)
(* listings, the post, user and service caches, service reviews and the   *)
(* soft deletes.  Mongoose applies the schema setters (lowercase, trim) to *)
(* query filters, runs populate() as a query of its own after the find,    *)
(* and findByIdAndUpdate(id, body) $sets every schema path of the body.    *)
(***************************************************************************)
EXTENDS Integers, Sequences, FiniteSets, TLC

\* ------------------------------------------------------------------ bounds
Users == {"u1", "u2", "u3"}
NoUser == "none"
GhostProfile == "ghost"
Slots == {"r1", "r2"}
SeqSlots == {"r1"}
MaxOps == 4

PostIds == {"p1"}
MissingId == "p0"
NoComment == 0
MaxComments == 3
MaxStories == 1
MaxTicks == 3
MaxPosts == 2
MaxMutations == 3

VARIABLES
  users,     \* User collection: id -> document
  freq,      \* toggleFollow requests in flight, per slot
  fops,      \* toggleFollow requests started so far
  fprev,     \* the toggleFollow response before the last one
  flast,     \* the last toggleFollow response
  posts,     \* Post collection: id -> document
  comments,  \* Comment collection: id -> document
  creq,      \* post / comment requests in flight, per slot
  cops,      \* post / comment requests started so far
  cprev,     \* the toggleLike response before the last one, if both are
  clast,     \* the last post / comment response
  toggled,   \* per post and account: an odd number of completed toggleLike
  stories,   \* Story collection: id -> document
  now,       \* the clock, in seconds
  storyCache,\* storyCache: key -> [v: value, t: expiry time]
  sreq,      \* story requests in flight, per slot
  sops,      \* story requests started so far
  ticks,     \* clock steps taken so far
  slast,     \* the last story response
  seen,      \* per story and account: a viewStory call has succeeded
  lreq,      \* comment listing requests in flight, per slot
  lops,      \* comment listing requests started so far
  llast,     \* the last comment listing response
  postCache, \* postCache: post id -> [v: value, t: expiry time]
  greq,      \* getPost requests in flight, per slot
  gops,      \* getPost requests started so far
  glast,     \* the last getPost response
  userCache, \* userCache: <<kind, id>> -> [v: value, t: expiry time]
  ureq,      \* profile read requests in flight, per slot
  uops,      \* profile read requests started so far
  ulast,     \* the last profile read response
  services,  \* Service collection: id -> document
  serviceCache, \* serviceCache: service id -> [v: value, t: expiry time]
  vreq,      \* service requests in flight, per slot
  vops,      \* service requests started so far
  vlast,     \* the last service response
  ads,       \* Advertisement collection: id -> document
  adCache,   \* adCache: feed key -> [v: value, t: expiry time]
  areq,      \* advertisement requests in flight, per slot
  aops,      \* advertisement requests started so far
  alast      \* the last advertisement response

varsFollow == <<users, freq, fops, fprev, flast>>
varsContent == <<posts, comments, creq, cops, cprev, clast, toggled>>
varsStory == <<stories, now, storyCache, sreq, sops, ticks, slast, seen>>
varsListing == <<lreq, lops, llast>>
varsGetPost == <<greq, gops, glast>>
varsUserRead == <<ureq, uops, ulast>>
varsService == <<services, serviceCache, vreq, vops, vlast>>
varsAd == <<ads, adCache, areq, aops, alast>>
othersFollowRespond ==
  <<varsContent, varsStory, varsListing, postCache, varsGetPost, varsUserRead,
    varsService, varsAd>>
othersFollow == <<othersFollowRespond, userCache>>
othersResponse ==
  <<varsFollow, varsStory, varsListing, varsGetPost, userCache, varsUserRead,
    varsService, varsAd>>
othersContent == <<othersResponse, postCache>>
othersStory ==
  <<varsFollow, varsContent, varsListing, postCache, varsGetPost,
    userCache, varsUserRead, varsService, varsAd>>
othersListing ==
  <<varsFollow, varsContent, varsStory, postCache, varsGetPost,
    userCache, varsUserRead, varsService, varsAd>>
othersGetPost ==
  <<varsFollow, varsContent, varsStory, varsListing, userCache, varsUserRead,
    varsService, varsAd>>
othersUserRead ==
  <<varsFollow, varsContent, varsStory, varsListing, postCache, varsGetPost,
    varsService, varsAd>>
othersProfile ==
  <<freq, fops, fprev, flast, varsContent, varsStory, varsListing, postCache,
    varsGetPost, varsService, varsAd>>
othersDeletePost ==
  <<freq, fops, fprev, flast, varsStory, varsListing, postCache, varsGetPost,
    userCache, varsUserRead, varsService, varsAd>>
othersService ==
  <<varsFollow, varsContent, varsStory, varsListing, postCache, varsGetPost,
    userCache, varsUserRead, varsAd>>
othersAd ==
  <<varsFollow, varsContent, varsStory, varsListing, postCache, varsGetPost,
    userCache, varsUserRead, varsService>>
vars == <<users, freq, fops, fprev, flast,
          posts, comments, creq, cops, cprev, clast, toggled,
          stories, now, storyCache, sreq, sops, ticks, slast, seen,
          lreq, lops, llast, postCache, greq, gops, glast,
          userCache, ureq, uops, ulast,
          services, serviceCache, vreq, vops, vlast,
          ads, adCache, areq, aops, alast>>

\* --------------------------------------------------------- array helpers
\* a membership test that never finds the element
Includes_Never(arr, x) == FALSE

\* Array.prototype.includes / MongooseArray.includes
Includes(arr, x) == \E i \in 1..Len(arr) : arr[i] = x

\* Array.prototype.indexOf: 0-based index of the first match, -1 if none
IndexOf(arr, x) ==
  IF Includes(arr, x)
    THEN (CHOOSE i \in 1..Len(arr) :
            arr[i] = x /\ \A j \in 1..(i - 1) : arr[j] # x) - 1
    ELSE -1

\* arr.splice(idx, 1) with a 0-based idx
Splice(arr, idx) == SubSeq(arr, 1, idx) \o SubSeq(arr, idx + 2, Len(arr))

Occurrences(arr, x) == Cardinality({i \in 1..Len(arr) : arr[i] = x})

\* a get that never lets an entry expire
CacheHit_Forever(cache, key) == key \in DOMAIN cache

\* NodeCache.get: a stored value whose expiry time has not passed
\* (an entry is dropped on access once t < Date.now())
CacheHit(cache, key) == key \in DOMAIN cache /\ ~(cache[key].t < now)

\* NodeCache.set(key, value, ttl)
CacheSet(cache, key, value, ttl) ==
  [k \in DOMAIN cache \cup {key} |->
     IF k = key THEN [v |-> value, t |-> now + ttl] ELSE cache[k]]

\* NodeCache.flushAll()
EmptyCache == [k \in {} |-> [v |-> {}, t |-> 0]]

\* NodeCache.del(key)
CacheDel(cache, key) == [k \in DOMAIN cache \ {key} |-> cache[k]]

\* NodeCache.flushAll()
Flushed(cache) == [k \in {} |-> cache[k]]

\* ------------------------------------------------------------ User model
\* the profileId of an account is its id; a request may spell it in
\* capitals
Capitals == [u \in Users |-> IF u = "u1" THEN "U1"
                            ELSE IF u = "u2" THEN "U2" ELSE "U3"]
ProfileParams == Users \cup {Capitals[u] : u \in Users} \cup {GhostProfile}

\* the lowercase setter of userSchema.profileId, which Mongoose also
\* applies to the profileId of a query filter
Lowercase(p) ==
  IF \E u \in Users : Capitals[u] = p
    THEN CHOOSE u \in Users : Capitals[u] = p
    ELSE p

\* User.findOne({ profileId }): the account found, or the value sought
ProfileOwner(p) == Lowercase(p)

NewUser ==
  [name |-> "user", phone |-> "555", following |-> <<>>, followers |-> <<>>,
   followingCount |-> 0, followersCount |-> 0, postsCount |-> 0, v |-> 0]

\* the accounts once u1 has published post p1 (createPost raises postsCount)
Accounts ==
  [u \in Users |-> IF u = "u1" THEN [NewUser EXCEPT !.postsCount = 1]
                                ELSE NewUser]

\* save() after arr.push(elem) and counter++ on a loaded document:
\* {$push: {arr: elem}, $set: {counter: local}, $inc: {__v: 1}}
SavePush(stored, local, arr, counter, elem) ==
  [stored EXCEPT ![arr] = Append(@, elem),
                 ![counter] = local[counter],
                 !["v"] = @ + 1]

\* save() after arr.splice() and counter-- on a loaded document:
\* {$set: {arr: local, counter: local}, $inc: {__v: 1}} where __v = local.__v
SaveSpliceOk(stored, local) == stored.v = local.v

SaveSplice(stored, local, arr, counter) ==
  [stored EXCEPT ![arr] = local[arr],
                 ![counter] = local[counter],
                 !["v"] = @ + 1]

\* a push that forgets to raise the counter
LocalPush_NoIncrement(doc, arr, counter, elem) ==
  [doc EXCEPT ![arr] = Append(@, elem)]

\* arr.push(elem); counter++ on a loaded document (follow, like, addView)
LocalPush(doc, arr, counter, elem) ==
  [doc EXCEPT ![arr] = Append(@, elem), ![counter] = @ + 1]

\* a splice that forgets to lower the counter
LocalSplice_NoDecrement(doc, arr, counter, elem) ==
  [doc EXCEPT ![arr] = Splice(@, IndexOf(@, elem))]

\* arr.splice(arr.indexOf(elem), 1); counter-- on a loaded document
\* (unfollow, unlike)
LocalSplice(doc, arr, counter, elem) ==
  [doc EXCEPT ![arr] = Splice(@, IndexOf(@, elem)), ![counter] = @ - 1]

\* --------------------------------------------------------- toggleFollow
IdleFollow ==
  [pc |-> "idle", actor |-> NoUser, target |-> NoUser, op |-> "none",
   doc |-> NewUser, status |-> 0, pre |-> <<>>]

NoResponse ==
  [actor |-> NoUser, target |-> NoUser, op |-> "none", status |-> 0,
   pre |-> <<>>, post |-> <<>>]

\* the four fields of the pair (a, b) a toggleFollow(a, b) is about
PairView(a, b) ==
  IF b \in Users
    THEN <<users[a].following, users[a].followingCount,
           users[b].followers, users[b].followersCount>>
    ELSE <<>>

\* the request enters the handler with the profileId b of the route; a
\* request whose profileId === req.user.profileId is answered 400 before
\* any store call
FollowStart(r, a, b, traced) ==
  /\ freq[r].pc = "idle"
  /\ fops < MaxOps
  /\ fops' = fops + 1
  /\ freq' = [freq EXCEPT ![r] =
       [IdleFollow EXCEPT !.actor = a, !.target = b,
                          !.pre = IF traced THEN PairView(a, ProfileOwner(b))
                                            ELSE <<>>,
                          !.pc = IF b = a THEN "respond" ELSE "findTarget",
                          !.status = IF b = a THEN 400 ELSE 0]]
  /\ UNCHANGED <<users, fprev, flast>>
  /\ UNCHANGED othersFollow

\* await User.findOne({ profileId })
FollowFindTarget(r) ==
  LET userToFollow == ProfileOwner(freq[r].target) IN
  /\ freq[r].pc = "findTarget"
  /\ freq' = [freq EXCEPT ![r].pc =
                IF userToFollow \in Users THEN "findSelf" ELSE "respond",
              ![r].status =
                IF userToFollow \in Users THEN 0 ELSE 404,
              ![r].target = userToFollow]
  /\ UNCHANGED <<users, fops, fprev, flast>>
  /\ UNCHANGED othersFollow

\* await User.findById(currentUserId), then the in-memory part of
\* follow() / unfollow() up to this.save()
FollowFindSelf(r) ==
  LET a == freq[r].actor
      b == freq[r].target
      cur == users[a]
      isFollowing == Includes(cur.following, b)
  IN
  /\ freq[r].pc = "findSelf"
  /\ freq' = [freq EXCEPT ![r] =
       IF isFollowing
         THEN IF IndexOf(cur.following, b) > -1
                THEN [@ EXCEPT !.pc = "saveSelf", !.op = "unfollow",
                        !.doc = LocalSplice(cur, "following", "followingCount", b)]
                ELSE [@ EXCEPT !.pc = "respond", !.op = "unfollow", !.status = 200]
         ELSE IF ~Includes(cur.following, b)
                THEN [@ EXCEPT !.pc = "saveSelf", !.op = "follow",
                        !.doc = LocalPush(cur, "following", "followingCount", b)]
                ELSE [@ EXCEPT !.pc = "respond", !.op = "follow", !.status = 200]]
  /\ UNCHANGED <<users, fops, fprev, flast>>
  /\ UNCHANGED othersFollow

\* await this.save() on the current user
FollowSaveSelf(r) ==
  LET a == freq[r].actor
      b == freq[r].target
  IN
  /\ freq[r].pc = "saveSelf"
  /\ IF freq[r].op = "follow"
       THEN /\ users' = [users EXCEPT ![a] =
                 SavePush(@, freq[r].doc, "following", "followingCount", b)]
            /\ freq' = [freq EXCEPT ![r].pc = "findOther"]
       ELSE IF SaveSpliceOk(users[a], freq[r].doc)
         THEN /\ users' = [users EXCEPT ![a] =
                   SaveSplice(@, freq[r].doc, "following", "followingCount")]
              /\ freq' = [freq EXCEPT ![r].pc = "findOther"]
         ELSE /\ users' = users
              /\ freq' = [freq EXCEPT ![r].pc = "respond", ![r].status = 500]
  /\ UNCHANGED <<fops, fprev, flast>>
  /\ UNCHANGED othersFollow

\* await this.constructor.findById(userId), then the in-memory update of
\* the other user's followers up to its save()
FollowFindOther(r) ==
  LET a == freq[r].actor
      b == freq[r].target
      oth == users[b]
  IN
  /\ freq[r].pc = "findOther"
  /\ freq' = [freq EXCEPT ![r] =
       IF freq[r].op = "follow"
         THEN IF ~Includes(oth.followers, a)
                THEN [@ EXCEPT !.pc = "saveOther",
                        !.doc = LocalPush(oth, "followers", "followersCount", a)]
                ELSE [@ EXCEPT !.pc = "respond", !.status = 200]
         ELSE IF IndexOf(oth.followers, a) > -1
                THEN [@ EXCEPT !.pc = "saveOther",
                        !.doc = LocalSplice(oth, "followers", "followersCount", a)]
                ELSE [@ EXCEPT !.pc = "respond", !.status = 200]]
  /\ UNCHANGED <<users, fops, fprev, flast>>
  /\ UNCHANGED othersFollow

\* await userToFollow.save() / userToUnfollow.save()
FollowSaveOther(r) ==
  LET a == freq[r].actor
      b == freq[r].target
  IN
  /\ freq[r].pc = "saveOther"
  /\ IF freq[r].op = "follow"
       THEN /\ users' = [users EXCEPT ![b] =
                 SavePush(@, freq[r].doc, "followers", "followersCount", a)]
            /\ freq' = [freq EXCEPT ![r].pc = "respond", ![r].status = 200]
       ELSE IF SaveSpliceOk(users[b], freq[r].doc)
         THEN /\ users' = [users EXCEPT ![b] =
                   SaveSplice(@, freq[r].doc, "followers", "followersCount")]
              /\ freq' = [freq EXCEPT ![r].pc = "respond", ![r].status = 200]
         ELSE /\ users' = users
              /\ freq' = [freq EXCEPT ![r].pc = "respond", ![r].status = 500]
  /\ UNCHANGED <<fops, fprev, flast>>
  /\ UNCHANGED othersFollow

\* the userCache.del calls after await currentUser.follow() / unfollow():
\* user:<current id>, profile:<current profileId>, profile:<target profileId>
UserCacheAfter(req) ==
  IF req.status = 200
    THEN CacheDel(CacheDel(CacheDel(userCache, <<"user", req.actor>>),
                           <<"profile", req.actor>>),
                  <<"profile", req.target>>)
    ELSE userCache

\* the code after the last await, then res.status(...).json(...): the
\* request leaves the handler
\* (traced: the response and the pair's fields before and after are kept
\* for the properties of sequential runs)
FollowRespond(r, traced) ==
  /\ freq[r].pc = "respond"
  /\ IF traced
       THEN /\ fprev' = flast
            /\ flast' = [actor |-> freq[r].actor, target |-> freq[r].target,
                         op |-> freq[r].op, status |-> freq[r].status,
                         pre |-> freq[r].pre,
                         post |-> PairView(freq[r].actor,
                                           ProfileOwner(freq[r].target))]
       ELSE UNCHANGED <<fprev, flast>>
  /\ userCache' = UserCacheAfter(freq[r])
  /\ freq' = [freq EXCEPT ![r] = IdleFollow]
  /\ UNCHANGED <<users, fops>>
  /\ UNCHANGED othersFollowRespond

toggleFollow(r, traced) ==
  \/ \E a \in Users, b \in Users \cup {GhostProfile} :
       FollowStart(r, a, b, traced)
  \/ FollowFindTarget(r)
  \/ FollowFindSelf(r)
  \/ FollowSaveSelf(r)
  \/ FollowFindOther(r)
  \/ FollowSaveOther(r)
  \/ FollowRespond(r, traced)


\* ------------------------------------------------- Post and Comment models
CommentIds == 1..MaxComments

NewPost(author) ==
  [author |-> author, likes |-> <<>>, likesCount |-> 0, commentsCount |-> 0,
   sharesCount |-> 0, visibility |-> "public", commentsEnabled |-> TRUE,
   isActive |-> TRUE, v |-> 0]

NewComment(post, author, parent) ==
  [post |-> post, author |-> author, parentComment |-> parent,
   likes |-> <<>>, likesCount |-> 0, repliesCount |-> 0,
   isActive |-> TRUE, v |-> 0]

\* a membership test that never matches
isLikedBy_Never(doc, userId) == FALSE

\* postSchema.methods.isLikedBy / commentSchema.methods.isLikedBy
isLikedBy(doc, userId) == \E i \in 1..Len(doc.likes) : doc.likes[i] = userId

\* Model.findById: the stored document, if there is one
Found(coll, id) == id \in DOMAIN coll

\* save() of a loaded document whose only change is a scalar field:
\* {$set: {field: local}}
SaveField(stored, local, field) == [stored EXCEPT ![field] = local[field]]

\* updateOne({ _id }, { $inc: { field: delta } }): nothing if no such _id
IncField(coll, id, field, delta) ==
  IF id \in DOMAIN coll
    THEN [coll EXCEPT ![id][field] = @ + delta]
    ELSE coll

\* ---------------------------------------- post and comment request state
IdleContent ==
  [pc |-> "idle", handler |-> "none", actor |-> NoUser, id |-> MissingId,
   parent |-> NoComment, op |-> "none", doc |-> NewPost(NoUser),
   status |-> 0, isLiked |-> FALSE, created |-> NoComment, pre |-> <<>>,
   cached |-> <<>>]

NoContentResponse ==
  [handler |-> "none", actor |-> NoUser, id |-> MissingId,
   parent |-> NoComment, op |-> "none", status |-> 0, isLiked |-> FALSE,
   likesCount |-> 0, created |-> NoComment, pre |-> <<>>, post |-> <<>>,
   cached |-> <<>>]

ContentView == [posts |-> posts, comments |-> comments]

\* a request enters one of the post / comment handlers
\* (traced: the collections and the post cache at that moment are kept)
ContentStart(r, handler, actor, id, parent, traced) ==
  /\ creq[r].pc = "idle"
  /\ cops < MaxOps
  /\ cops' = cops + 1
  /\ creq' = [creq EXCEPT ![r] =
       [IdleContent EXCEPT !.pc = "find", !.handler = handler,
                           !.actor = actor, !.id = id, !.parent = parent,
                           !.pre = IF traced THEN ContentView ELSE <<>>,
                           !.cached = IF traced THEN postCache ELSE <<>>]]
  /\ UNCHANGED <<posts, comments, cprev, clast, toggled>>
  /\ UNCHANGED othersContent

\* the in-memory part of like() / unlike() after the document is loaded
LikeOrUnlike(req, doc) ==
  IF isLikedBy(doc, req.actor)
    THEN IF IndexOf(doc.likes, req.actor) > -1
           THEN [req EXCEPT !.pc = "save", !.op = "unlike", !.isLiked = TRUE,
                   !.doc = LocalSplice(doc, "likes", "likesCount", req.actor)]
           ELSE [req EXCEPT !.pc = "respond", !.op = "unlike",
                   !.isLiked = TRUE, !.doc = doc, !.status = 200]
    ELSE IF ~Includes(doc.likes, req.actor)
           THEN [req EXCEPT !.pc = "save", !.op = "like", !.isLiked = FALSE,
                   !.doc = LocalPush(doc, "likes", "likesCount", req.actor)]
           ELSE [req EXCEPT !.pc = "respond", !.op = "like",
                   !.isLiked = FALSE, !.doc = doc, !.status = 200]

\* a toggleLike that takes likesCount from the post cache when it can
ToggleLikeFind_FromCache(r) ==
  LET req == creq[r]
      doc == IF CacheHit(postCache, req.id)
               THEN [posts[req.id] EXCEPT
                       !.likesCount = postCache[req.id].v.likesCount]
               ELSE posts[req.id]
  IN
  /\ req.pc = "find"
  /\ req.handler = "toggleLike"
  /\ creq' = [creq EXCEPT ![r] =
       IF ~Found(posts, req.id) \/ ~posts[req.id].isActive
         THEN [@ EXCEPT !.pc = "respond", !.status = 404]
         ELSE LikeOrUnlike(req, doc)]
  /\ UNCHANGED <<posts, comments, cops, cprev, clast, toggled>>
  /\ UNCHANGED othersContent

\* toggleLike: await Post.findById(id), then like() / unlike() up to save()
ToggleLikeFind(r) ==
  LET req == creq[r] IN
  /\ req.pc = "find"
  /\ req.handler = "toggleLike"
  /\ creq' = [creq EXCEPT ![r] =
       IF ~Found(posts, req.id) \/ ~posts[req.id].isActive
         THEN [@ EXCEPT !.pc = "respond", !.status = 404]
         ELSE LikeOrUnlike(req, posts[req.id])]
  /\ UNCHANGED <<posts, comments, cops, cprev, clast, toggled>>
  /\ UNCHANGED othersContent

\* toggleLike: await this.save() inside like() / unlike()
ToggleLikeSave(r) ==
  LET req == creq[r] IN
  /\ req.pc = "save"
  /\ req.handler = "toggleLike"
  /\ IF req.op = "like"
       THEN /\ posts' = [posts EXCEPT ![req.id] =
                 SavePush(@, req.doc, "likes", "likesCount", req.actor)]
            /\ creq' = [creq EXCEPT ![r].pc = "respond", ![r].status = 200]
       ELSE IF SaveSpliceOk(posts[req.id], req.doc)
         THEN /\ posts' = [posts EXCEPT ![req.id] =
                   SaveSplice(@, req.doc, "likes", "likesCount")]
              /\ creq' = [creq EXCEPT ![r].pc = "respond", ![r].status = 200]
         ELSE /\ posts' = posts
              /\ creq' = [creq EXCEPT ![r].pc = "respond", ![r].status = 500]
  /\ UNCHANGED <<comments, cops, cprev, clast, toggled>>
  /\ UNCHANGED othersContent

\* toggleCommentLike: await Comment.findById(id), then like() / unlike()
ToggleCommentLikeFind(r) ==
  LET req == creq[r] IN
  /\ req.pc = "find"
  /\ req.handler = "toggleCommentLike"
  /\ creq' = [creq EXCEPT ![r] =
       IF ~Found(comments, req.id) \/ ~comments[req.id].isActive
         THEN [@ EXCEPT !.pc = "respond", !.status = 404]
         ELSE LikeOrUnlike(req, comments[req.id])]
  /\ UNCHANGED <<posts, comments, cops, cprev, clast, toggled>>
  /\ UNCHANGED othersContent

\* where a comment's save() continues: commentSchema.post('save') runs
\* after every successful save of a comment document
AfterCommentSave(doc) ==
  IF doc.parentComment # NoComment THEN "hookParent" ELSE "hookPost"

\* toggleCommentLike: await this.save() inside like() / unlike()
ToggleCommentLikeSave(r) ==
  LET req == creq[r] IN
  /\ req.pc = "save"
  /\ req.handler = "toggleCommentLike"
  /\ IF req.op = "like"
       THEN /\ comments' = [comments EXCEPT ![req.id] =
                 SavePush(@, req.doc, "likes", "likesCount", req.actor)]
            /\ creq' = [creq EXCEPT ![r].pc = AfterCommentSave(req.doc),
                                    ![r].status = 200]
       ELSE IF SaveSpliceOk(comments[req.id], req.doc)
         THEN /\ comments' = [comments EXCEPT ![req.id] =
                   SaveSplice(@, req.doc, "likes", "likesCount")]
              /\ creq' = [creq EXCEPT ![r].pc = AfterCommentSave(req.doc),
                                      ![r].status = 200]
         ELSE /\ comments' = comments
              /\ creq' = [creq EXCEPT ![r].pc = "respond", ![r].status = 500]
  /\ UNCHANGED <<posts, cops, cprev, clast, toggled>>
  /\ UNCHANGED othersContent

\* createComment / updateComment without content: 400 before any store call
ContentReject(r, handler, actor, id, parent, traced) ==
  /\ creq[r].pc = "idle"
  /\ cops < MaxOps
  /\ cops' = cops + 1
  /\ creq' = [creq EXCEPT ![r] =
       [IdleContent EXCEPT !.pc = "respond", !.handler = handler,
                           !.actor = actor, !.id = id, !.parent = parent,
                           !.status = 400,
                           !.pre = IF traced THEN ContentView ELSE <<>>]]
  /\ UNCHANGED <<posts, comments, cprev, clast, toggled>>
  /\ UNCHANGED othersContent

\* createComment: await Post.findById(postId)
CreateCommentFindPost(r) ==
  LET req == creq[r] IN
  /\ req.pc = "find"
  /\ req.handler = "createComment"
  /\ creq' = [creq EXCEPT ![r] =
       IF ~Found(posts, req.id) \/ ~posts[req.id].isActive
         THEN [@ EXCEPT !.pc = "respond", !.status = 404]
       ELSE IF req.parent # NoComment
         THEN [@ EXCEPT !.pc = "findParent"]
         ELSE [@ EXCEPT !.pc = "save",
                 !.doc = NewComment(req.id, req.actor, NoComment)]]
  /\ UNCHANGED <<posts, comments, cops, cprev, clast, toggled>>
  /\ UNCHANGED othersContent

\* createComment: await Comment.findById(parentCommentId)
CreateCommentFindParent(r) ==
  LET req == creq[r] IN
  /\ req.pc = "findParent"
  /\ creq' = [creq EXCEPT ![r] =
       IF ~Found(comments, req.parent) \/ ~comments[req.parent].isActive
         THEN [@ EXCEPT !.pc = "respond", !.status = 404]
         ELSE [@ EXCEPT !.pc = "save",
                 !.doc = NewComment(req.id, req.actor, req.parent)]]
  /\ UNCHANGED <<posts, comments, cops, cprev, clast, toggled>>
  /\ UNCHANGED othersContent

\* createComment: await comment.save() of the new document
CreateCommentSave(r) ==
  LET req == creq[r]
      id == Cardinality(DOMAIN comments) + 1
  IN
  /\ req.pc = "save"
  /\ req.handler = "createComment"
  /\ id \in CommentIds
  /\ comments' = [c \in DOMAIN comments \cup {id} |->
                    IF c = id THEN req.doc ELSE comments[c]]
  /\ creq' = [creq EXCEPT ![r].pc = AfterCommentSave(req.doc),
                          ![r].status = 201, ![r].created = id]
  /\ UNCHANGED <<posts, cops, cprev, clast, toggled>>
  /\ UNCHANGED othersContent

\* updateComment: await Comment.findById(id), the author check,
\* comment.content = content
UpdateCommentFind(r) ==
  LET req == creq[r] IN
  /\ req.pc = "find"
  /\ req.handler = "updateComment"
  /\ creq' = [creq EXCEPT ![r] =
       IF ~Found(comments, req.id) \/ ~comments[req.id].isActive
         THEN [@ EXCEPT !.pc = "respond", !.status = 404]
       ELSE IF comments[req.id].author # req.actor
         THEN [@ EXCEPT !.pc = "respond", !.status = 403]
         ELSE [@ EXCEPT !.pc = "save", !.doc = comments[req.id]]]
  /\ UNCHANGED <<posts, comments, cops, cprev, clast, toggled>>
  /\ UNCHANGED othersContent

\* updateComment: await comment.save() (content is not modelled)
UpdateCommentSave(r) ==
  LET req == creq[r] IN
  /\ req.pc = "save"
  /\ req.handler = "updateComment"
  /\ creq' = [creq EXCEPT ![r].pc = AfterCommentSave(req.doc),
                          ![r].status = 200]
  /\ UNCHANGED <<posts, comments, cops, cprev, clast, toggled>>
  /\ UNCHANGED othersContent

\* deleteComment: await Comment.findById(id), the author check,
\* comment.isActive = false
DeleteCommentFind(r) ==
  LET req == creq[r] IN
  /\ req.pc = "find"
  /\ req.handler = "deleteComment"
  /\ creq' = [creq EXCEPT ![r] =
       IF ~Found(comments, req.id)
         THEN [@ EXCEPT !.pc = "respond", !.status = 404]
       ELSE IF comments[req.id].author # req.actor
         THEN [@ EXCEPT !.pc = "respond", !.status = 403]
         ELSE [@ EXCEPT !.pc = "save",
                 !.doc = [comments[req.id] EXCEPT !.isActive = FALSE]]]
  /\ UNCHANGED <<posts, comments, cops, cprev, clast, toggled>>
  /\ UNCHANGED othersContent

\* deleteComment: await comment.save()
DeleteCommentSave(r) ==
  LET req == creq[r] IN
  /\ req.pc = "save"
  /\ req.handler = "deleteComment"
  /\ comments' = [comments EXCEPT ![req.id] = SaveField(@, req.doc, "isActive")]
  /\ creq' = [creq EXCEPT ![r].pc = AfterCommentSave(req.doc),
                          ![r].status = 200]
  /\ UNCHANGED <<posts, cops, cprev, clast, toggled>>
  /\ UNCHANGED othersContent

\* the ids of the posts in the order of their creation
PostNames == <<"p1", "p2", "p3", "p4", "p5">>

\* createPost without a media file: 400 before any store call
CreatePostNoFile(r, actor, traced) ==
  /\ creq[r].pc = "idle"
  /\ cops < MaxOps
  /\ cops' = cops + 1
  /\ creq' = [creq EXCEPT ![r] =
       [IdleContent EXCEPT !.pc = "respond", !.handler = "createPost",
                           !.actor = actor, !.status = 400,
                           !.pre = IF traced THEN ContentView ELSE <<>>]]
  /\ UNCHANGED <<posts, comments, cprev, clast, toggled>>
  /\ UNCHANGED othersContent

\* a multipart body field that is not sent, and the values the fields
\* visibility and commentsEnabled may carry
Absent == ""
Visibilities == {Absent, "public", "private"}
Flags == {Absent, "true", "false"}

\* JSON.parse of "true" / "false"
JSONparse(text) == text = "true"

\* a request enters createPost with its media files: new Post({...}) with
\* visibility || 'public' and
\* commentsEnabled !== undefined ? JSON.parse(commentsEnabled) : true
CreatePostWith(r, actor, visibility, commentsEnabled, traced) ==
  /\ creq[r].pc = "idle"
  /\ cops < MaxOps
  /\ Cardinality(DOMAIN posts) < MaxPosts
  /\ cops' = cops + 1
  /\ creq' = [creq EXCEPT ![r] =
       [IdleContent EXCEPT
          !.pc = "save", !.handler = "createPost", !.actor = actor,
          !.doc = [NewPost(actor) EXCEPT
                     !.visibility = IF visibility = Absent THEN "public"
                                                           ELSE visibility,
                     !.commentsEnabled =
                        IF commentsEnabled # Absent
                          THEN JSONparse(commentsEnabled) ELSE TRUE],
          !.pre = IF traced THEN ContentView ELSE <<>>]]
  /\ UNCHANGED <<posts, comments, cprev, clast, toggled>>
  /\ UNCHANGED othersContent

\* createPost with neither visibility nor commentsEnabled in the body
CreatePostStart(r, actor, traced) ==
  CreatePostWith(r, actor, Absent, Absent, traced)

\* createPost: await post.save()
CreatePostSave(r) ==
  LET req == creq[r]
      id == PostNames[Cardinality(DOMAIN posts) + 1]
  IN
  /\ req.pc = "save"
  /\ req.handler = "createPost"
  /\ posts' = [p \in DOMAIN posts \cup {id} |->
                 IF p = id THEN req.doc ELSE posts[p]]
  /\ creq' = [creq EXCEPT ![r].pc = "countUp", ![r].id = id]
  /\ UNCHANGED <<comments, cops, cprev, clast, toggled>>
  /\ UNCHANGED othersContent

\* createPost: await User.findByIdAndUpdate(authorId, {$inc: {postsCount: 1}})
CreatePostCount(r) ==
  LET req == creq[r] IN
  /\ req.pc = "countUp"
  /\ users' = IncField(users, req.actor, "postsCount", 1)
  /\ creq' = [creq EXCEPT ![r].pc = "populate"]
  /\ UNCHANGED <<posts, comments, cops, cprev, clast, toggled>>
  /\ UNCHANGED othersDeletePost

\* createPost: await post.populate('author', ...)
CreatePostPopulate(r) ==
  LET req == creq[r] IN
  /\ req.pc = "populate"
  /\ req.handler = "createPost"
  /\ creq' = [creq EXCEPT ![r].pc = "respond", ![r].status = 201]
  /\ UNCHANGED <<posts, comments, cops, cprev, clast, toggled>>
  /\ UNCHANGED othersContent

\* deletePost without the author check
DeletePostFind_NoAuthorCheck(r) ==
  LET req == creq[r] IN
  /\ req.pc = "find"
  /\ req.handler = "deletePost"
  /\ creq' = [creq EXCEPT ![r] =
       IF ~Found(posts, req.id)
         THEN [@ EXCEPT !.pc = "respond", !.status = 404]
         ELSE [@ EXCEPT !.pc = "save",
                 !.doc = [posts[req.id] EXCEPT !.isActive = FALSE]]]
  /\ UNCHANGED <<posts, comments, cops, cprev, clast, toggled>>
  /\ UNCHANGED othersContent

\* deletePost: await Post.findById(id), the author check,
\* post.isActive = false
DeletePostFind(r) ==
  LET req == creq[r] IN
  /\ req.pc = "find"
  /\ req.handler = "deletePost"
  /\ creq' = [creq EXCEPT ![r] =
       IF ~Found(posts, req.id)
         THEN [@ EXCEPT !.pc = "respond", !.status = 404]
       ELSE IF posts[req.id].author # req.actor
         THEN [@ EXCEPT !.pc = "respond", !.status = 403]
         ELSE [@ EXCEPT !.pc = "save",
                 !.doc = [posts[req.id] EXCEPT !.isActive = FALSE]]]
  /\ UNCHANGED <<posts, comments, cops, cprev, clast, toggled>>
  /\ UNCHANGED othersContent

\* deletePost: await post.save()
DeletePostSave(r) ==
  LET req == creq[r] IN
  /\ req.pc = "save"
  /\ req.handler = "deletePost"
  /\ posts' = [posts EXCEPT ![req.id] = SaveField(@, req.doc, "isActive")]
  /\ creq' = [creq EXCEPT ![r].pc = "count"]
  /\ UNCHANGED <<comments, cops, cprev, clast, toggled>>
  /\ UNCHANGED othersContent

\* deletePost: await User.findByIdAndUpdate(userId, {$inc: {postsCount: -1}})
DeletePostCount(r) ==
  LET req == creq[r] IN
  /\ req.pc = "count"
  /\ users' = IncField(users, req.actor, "postsCount", -1)
  /\ creq' = [creq EXCEPT ![r].pc = "respond", ![r].status = 200]
  /\ UNCHANGED <<posts, comments, cops, cprev, clast, toggled>>
  /\ UNCHANGED othersDeletePost

\* commentSchema.post('save'): await updateOne(parent, $inc repliesCount 1)
CommentSaveHookParent(r) ==
  LET req == creq[r] IN
  /\ req.pc = "hookParent"
  /\ comments' = IncField(comments, req.doc.parentComment, "repliesCount", 1)
  /\ creq' = [creq EXCEPT ![r].pc = "hookPost"]
  /\ UNCHANGED <<posts, cops, cprev, clast, toggled>>
  /\ UNCHANGED othersContent

\* commentSchema.post('save'): await Post.updateOne(post, $inc commentsCount 1)
CommentSaveHookPost(r) ==
  LET req == creq[r] IN
  /\ req.pc = "hookPost"
  /\ posts' = IncField(posts, req.doc.post, "commentsCount", 1)
  /\ creq' = [creq EXCEPT ![r].pc = "respond"]
  /\ UNCHANGED <<comments, cops, cprev, clast, toggled>>
  /\ UNCHANGED othersContent

\* sharePost with postCache.del('post:id') moved before post.save()
SharePostFind_DelFirst(r) ==
  LET req == creq[r] IN
  /\ req.pc = "find"
  /\ req.handler = "sharePost"
  /\ creq' = [creq EXCEPT ![r] =
       IF ~Found(posts, req.id) \/ ~posts[req.id].isActive
         THEN [@ EXCEPT !.pc = "respond", !.status = 404]
         ELSE [@ EXCEPT !.pc = "save",
                 !.doc = [posts[req.id] EXCEPT !.sharesCount = @ + 1]]]
  /\ postCache' = IF Found(posts, req.id) /\ posts[req.id].isActive
                    THEN CacheDel(postCache, req.id) ELSE postCache
  /\ UNCHANGED <<posts, comments, cops, cprev, clast, toggled>>
  /\ UNCHANGED othersResponse

\* sharePost: await Post.findById(id), then post.sharesCount++
SharePostFind(r) ==
  LET req == creq[r] IN
  /\ req.pc = "find"
  /\ req.handler = "sharePost"
  /\ creq' = [creq EXCEPT ![r] =
       IF ~Found(posts, req.id) \/ ~posts[req.id].isActive
         THEN [@ EXCEPT !.pc = "respond", !.status = 404]
         ELSE [@ EXCEPT !.pc = "save",
                 !.doc = [posts[req.id] EXCEPT !.sharesCount = @ + 1]]]
  /\ UNCHANGED <<posts, comments, cops, cprev, clast, toggled>>
  /\ UNCHANGED othersContent

\* sharePost: await post.save()
SharePostSave(r) ==
  LET req == creq[r] IN
  /\ req.pc = "save"
  /\ req.handler = "sharePost"
  /\ posts' = [posts EXCEPT ![req.id] = SaveField(@, req.doc, "sharesCount")]
  /\ creq' = [creq EXCEPT ![r].pc = "respond", ![r].status = 200]
  /\ UNCHANGED <<comments, cops, cprev, clast, toggled>>
  /\ UNCHANGED othersContent

\* the cache calls of the post / comment handlers without flushAll()
PostCacheAfter_NoFlush(req) ==
  IF req.handler \in {"toggleLike", "deletePost"} /\ req.status = 200
    THEN CacheDel(postCache, req.id)
  ELSE IF req.handler = "createComment" /\ req.status = 201
    THEN CacheDel(postCache, req.id)
  ELSE IF req.handler = "sharePost" /\ req.status = 200
    THEN CacheDel(postCache, req.id)
  ELSE IF req.handler = "createPost" /\ req.status = 201
    THEN CacheDel(postCache, "home_feed")
    ELSE postCache

\* the cache calls between the last await of a post / comment handler and
\* its response: toggleLike and deletePost do postCache.del('post:id') and
\* postCache.flushAll(), createComment does postCache.del('post:postId'),
\* sharePost does postCache.del('post:id'), createPost 'home_feed';
\* the other keys deleted by the comment handlers ('comments:postId') are
\* never set
PostCacheAfter(req) ==
  IF req.handler \in {"toggleLike", "deletePost"} /\ req.status = 200
    THEN Flushed(CacheDel(postCache, req.id))
  ELSE IF req.handler = "createComment" /\ req.status = 201
    THEN CacheDel(postCache, req.id)
  ELSE IF req.handler = "sharePost" /\ req.status = 200
    THEN CacheDel(postCache, req.id)
  ELSE IF req.handler = "createPost" /\ req.status = 201
    THEN CacheDel(postCache, "home_feed")
    ELSE postCache

\* the code after the last await of a post / comment handler, then
\* res.status(...).json(...)
\* (the parity of each account's completed toggleLike calls is kept;
\* traced: so are the response and the collections before and after)
ContentRespond(r, traced) ==
  LET req == creq[r] IN
  /\ req.pc = "respond"
  /\ IF traced
       THEN /\ cprev' = IF req.handler = "toggleLike"
                              /\ clast.handler = "toggleLike"
                           THEN clast ELSE NoContentResponse
            /\ clast' = [handler |-> req.handler, actor |-> req.actor,
                         id |-> req.id, parent |-> req.parent,
                         op |-> req.op, status |-> req.status,
                         isLiked |-> ~req.isLiked,
                         likesCount |-> req.doc.likesCount,
                         created |-> req.created,
                         pre |-> req.pre, post |-> ContentView,
                         cached |-> req.cached]
       ELSE UNCHANGED <<cprev, clast>>
  /\ toggled' =
       IF req.handler = "toggleLike" /\ req.status = 200
         THEN [toggled EXCEPT ![req.id][req.actor] = ~@]
         ELSE toggled
  /\ postCache' = PostCacheAfter(req)
  /\ creq' = [creq EXCEPT ![r] = IdleContent]
  /\ UNCHANGED <<posts, comments, cops>>
  /\ UNCHANGED othersResponse

toggleLike(r, traced) ==
  \/ \E u \in Users, p \in PostIds \cup {MissingId} :
       ContentStart(r, "toggleLike", u, p, NoComment, traced)
  \/ ToggleLikeFind(r)
  \/ ToggleLikeSave(r)

toggleCommentLike(r, traced) ==
  \/ \E u \in Users, c \in CommentIds :
       ContentStart(r, "toggleCommentLike", u, c, NoComment, traced)
  \/ ToggleCommentLikeFind(r)
  \/ ToggleCommentLikeSave(r)

createComment(r, traced) ==
  \/ \E u \in Users, p \in PostIds \cup {MissingId},
        c \in CommentIds \cup {NoComment} :
       \/ ContentStart(r, "createComment", u, p, c, traced)
       \/ ContentReject(r, "createComment", u, p, c, traced)
  \/ CreateCommentFindPost(r)
  \/ CreateCommentFindParent(r)
  \/ CreateCommentSave(r)

updateComment(r, traced) ==
  \/ \E u \in Users, c \in CommentIds :
       \/ ContentStart(r, "updateComment", u, c, NoComment, traced)
       \/ ContentReject(r, "updateComment", u, c, NoComment, traced)
  \/ UpdateCommentFind(r)
  \/ UpdateCommentSave(r)

createPost(r, traced) ==
  \/ \E u \in Users :
       \/ CreatePostNoFile(r, u, traced)
       \/ CreatePostStart(r, u, traced)
  \/ CreatePostSave(r)
  \/ CreatePostCount(r)
  \/ CreatePostPopulate(r)

deletePost(r, traced) ==
  \/ \E u \in Users, p \in PostIds \cup {MissingId} :
       ContentStart(r, "deletePost", u, p, NoComment, traced)
  \/ DeletePostFind(r)
  \/ DeletePostSave(r)
  \/ DeletePostCount(r)

sharePost(r, traced) ==
  \/ \E u \in Users, p \in PostIds \cup {MissingId} :
       ContentStart(r, "sharePost", u, p, NoComment, traced)
  \/ SharePostFind(r)
  \/ SharePostSave(r)

deleteComment(r, traced) ==
  \/ \E u \in Users, c \in CommentIds :
       ContentStart(r, "deleteComment", u, c, NoComment, traced)
  \/ DeleteCommentFind(r)
  \/ DeleteCommentSave(r)

commentSaveHook(r) ==
  \/ CommentSaveHookParent(r)
  \/ CommentSaveHookPost(r)


\* ------------------------------------------------------- comment listings
\* .limit(limit) with the default limit of a page, and the limit of the
\* populated replies
PageLimit == 20
RepliesLimit == 3

\* the n oldest of a set of comments (sort { createdAt: 1 }, limit n);
\* ids grow with the creation time
FirstN(S, n) == {c \in S : Cardinality({d \in S : d < c}) < n}

\* the n newest of a set of comments (sort { createdAt: -1 }, limit n)
LastN(S, n) == {c \in S : Cardinality({d \in S : d > c}) < n}

\* Comment.find({ post, parentComment: null, isActive: true })
TopLevelComments(p) ==
  {c \in DOMAIN comments :
     /\ comments[c].post = p
     /\ comments[c].parentComment = NoComment
     /\ comments[c].isActive}

\* the virtual 'replies' of a comment: every document whose parentComment
\* is the comment (the virtual and its populate() carry no match on
\* isActive)
VirtualReplies(c) == {d \in DOMAIN comments : comments[d].parentComment = c}

\* Comment.find({ parentComment, isActive: true })
ActiveRepliesOf(c) == {d \in VirtualReplies(c) : comments[d].isActive}

\* the comments whose deleteComment has completed
DeletedComments ==
  {c \in DOMAIN comments :
     /\ ~comments[c].isActive
     /\ \A q \in Slots :
          ~(creq[q].handler = "deleteComment" /\ creq[q].id = c)}

IdleListing ==
  [pc |-> "idle", handler |-> "none", post |-> MissingId,
   comment |-> NoComment, status |-> 0, top |-> {}, replies |-> {},
   gone |-> {}]

NoListingResponse ==
  [handler |-> "none", post |-> MissingId, comment |-> NoComment,
   status |-> 0, top |-> {}, replies |-> {}, gone |-> {}]

\* a request enters getPostComments or getCommentReplies (page 1, default
\* limit); the comments already deleted at that time are noted
ListingStart(r, handler, p, c) ==
  /\ lreq[r].pc = "idle"
  /\ lops < MaxOps
  /\ lops' = lops + 1
  /\ lreq' = [lreq EXCEPT ![r] =
       [IdleListing EXCEPT !.pc = "find", !.handler = handler, !.post = p,
                           !.comment = c, !.gone = DeletedComments]]
  /\ UNCHANGED llast
  /\ UNCHANGED othersListing

\* getPostComments: await Post.findById(postId)
GetPostCommentsFindPost(r) ==
  LET req == lreq[r] IN
  /\ req.pc = "find"
  /\ req.handler = "getPostComments"
  /\ lreq' = [lreq EXCEPT ![r] =
       IF ~Found(posts, req.post) \/ ~posts[req.post].isActive
         THEN [@ EXCEPT !.pc = "respond", !.status = 404]
         ELSE [@ EXCEPT !.pc = "findComments"]]
  /\ UNCHANGED <<lops, llast>>
  /\ UNCHANGED othersListing

\* getPostComments: await Comment.find({...}): the top-level query
GetPostCommentsFind(r) ==
  LET req == lreq[r] IN
  /\ req.pc = "findComments"
  /\ lreq' = [lreq EXCEPT ![r].pc = "populate",
                ![r].top = LastN(TopLevelComments(req.post), PageLimit)]
  /\ UNCHANGED <<lops, llast>>
  /\ UNCHANGED othersListing

\* getPostComments: the populate({ path: 'replies', options: { limit: 3 } })
\* query of the same await; the later queries (liked comments,
\* countDocuments) do not change the listed comments
GetPostCommentsPopulate(r) ==
  LET req == lreq[r] IN
  /\ req.pc = "populate"
  /\ lreq' = [lreq EXCEPT ![r].pc = "respond", ![r].status = 200,
                ![r].replies =
                  UNION {FirstN(VirtualReplies(c), RepliesLimit) :
                           c \in req.top}]
  /\ UNCHANGED <<lops, llast>>
  /\ UNCHANGED othersListing

\* getCommentReplies: await Comment.findById(commentId)
GetCommentRepliesFindParent(r) ==
  LET req == lreq[r] IN
  /\ req.pc = "find"
  /\ req.handler = "getCommentReplies"
  /\ lreq' = [lreq EXCEPT ![r] =
       IF ~Found(comments, req.comment) \/ ~comments[req.comment].isActive
         THEN [@ EXCEPT !.pc = "respond", !.status = 404]
         ELSE [@ EXCEPT !.pc = "findReplies"]]
  /\ UNCHANGED <<lops, llast>>
  /\ UNCHANGED othersListing

\* getCommentReplies: await Comment.find({ parentComment, isActive: true })
GetCommentRepliesFind(r) ==
  LET req == lreq[r] IN
  /\ req.pc = "findReplies"
  /\ lreq' = [lreq EXCEPT ![r].pc = "respond", ![r].status = 200,
                ![r].replies =
                  FirstN(ActiveRepliesOf(req.comment), PageLimit)]
  /\ UNCHANGED <<lops, llast>>
  /\ UNCHANGED othersListing

\* res.status(...).json(...) of a comment listing
ListingRespond(r) ==
  LET req == lreq[r] IN
  /\ req.pc = "respond"
  /\ llast' = [handler |-> req.handler, post |-> req.post,
               comment |-> req.comment, status |-> req.status,
               top |-> req.top, replies |-> req.replies, gone |-> req.gone]
  /\ lreq' = [lreq EXCEPT ![r] = IdleListing]
  /\ UNCHANGED lops
  /\ UNCHANGED othersListing

getPostComments(r) ==
  \/ \E p \in PostIds \cup {MissingId} :
       ListingStart(r, "getPostComments", p, NoComment)
  \/ GetPostCommentsFindPost(r)
  \/ GetPostCommentsFind(r)
  \/ GetPostCommentsPopulate(r)

getCommentReplies(r) ==
  \/ \E c \in CommentIds :
       ListingStart(r, "getCommentReplies", MissingId, c)
  \/ GetCommentRepliesFindParent(r)
  \/ GetCommentRepliesFind(r)

\* ------------------------------------------------------------ Story model
StoryIds == 1..MaxStories
NoStory == 0

\* expiresAt default: 24 * 60 * 60 seconds after creation
StoryLifetime == 86400
\* getStoriesFeed: storyCache.set(cacheKey, result, 600)
FeedCacheTTL == 600

NewStory(author, createdAt) ==
  [author |-> author, views |-> <<>>, viewsCount |-> 0, isActive |-> TRUE,
   expiresAt |-> createdAt + StoryLifetime, v |-> 0]

\* the listing filter { isActive: true, expiresAt: { $gt: new Date() } }
\* over the given authors; a listing is modelled by the set of story ids
\* it contains
VisibleStories(authors, date) ==
  {s \in DOMAIN stories :
     /\ stories[s].author \in authors
     /\ stories[s].isActive
     /\ stories[s].expiresAt > date}

\* a lookup that never finds the viewer
existingView_Never(doc, userId) == FALSE

\* storySchema.methods.addView: this.views.find(view => view.user == userId)
existingView(doc, userId) == Includes(doc.views, userId)

RangeOf(arr) == {arr[i] : i \in 1..Len(arr)}

IdleStory ==
  [pc |-> "idle", handler |-> "none", actor |-> NoUser, id |-> NoStory,
   profile |-> NoUser, op |-> "none", doc |-> NewStory(NoUser, 0), status |-> 0,
   authors |-> {}, result |-> {}, isNewView |-> FALSE,
   fromCache |-> FALSE, cachedUntil |-> 0]

NoStoryResponse ==
  [handler |-> "none", actor |-> NoUser, id |-> NoStory, status |-> 0,
   stories |-> {}, at |-> 0, isNewView |-> FALSE, viewsCount |-> 0,
   first |-> FALSE, fromCache |-> FALSE, cachedUntil |-> 0]

\* the response of a story handler, produced now
StoryResponse(req) ==
  [handler |-> req.handler, actor |-> req.actor, id |-> req.id,
   status |-> req.status, stories |-> req.result, at |-> now,
   isNewView |-> req.isNewView, viewsCount |-> req.doc.viewsCount,
   first |-> IF req.id \in StoryIds THEN ~seen[req.id][req.actor] ELSE FALSE,
   fromCache |-> req.fromCache, cachedUntil |-> req.cachedUntil]

\* a request enters a story handler other than getStoriesFeed
StoryStart(r, handler, actor, id, profile) ==
  /\ sreq[r].pc = "idle"
  /\ sops < MaxOps
  /\ sops' = sops + 1
  /\ sreq' = [sreq EXCEPT ![r] =
       [IdleStory EXCEPT !.pc = "find", !.handler = handler,
                         !.actor = actor, !.id = id, !.profile = profile]]
  /\ UNCHANGED <<stories, now, storyCache, ticks, slast, seen>>
  /\ UNCHANGED othersStory

\* createStory without a media file: 400 before any store call
CreateStoryNoFile(r, actor) ==
  /\ sreq[r].pc = "idle"
  /\ sops < MaxOps
  /\ sops' = sops + 1
  /\ sreq' = [sreq EXCEPT ![r] =
       [IdleStory EXCEPT !.pc = "respond", !.handler = "createStory",
                         !.actor = actor, !.status = 400]]
  /\ UNCHANGED <<stories, now, storyCache, ticks, slast, seen>>
  /\ UNCHANGED othersStory

\* createStory: new Story({...}); await story.save()
CreateStorySave(r) ==
  LET req == sreq[r]
      id == Cardinality(DOMAIN stories) + 1
  IN
  /\ req.pc = "find"
  /\ req.handler = "createStory"
  /\ id \in StoryIds
  /\ stories' = [s \in DOMAIN stories \cup {id} |->
                   IF s = id THEN NewStory(req.actor, now) ELSE stories[s]]
  /\ sreq' = [sreq EXCEPT ![r].pc = "respond", ![r].status = 201,
                          ![r].id = id, ![r].op = "flush"]
  /\ UNCHANGED <<now, storyCache, sops, ticks, slast, seen>>
  /\ UNCHANGED othersStory

\* getStoriesFeed: storyCache.get(cacheKey); a hit is answered at once
\* (noted: that the response came from the cache, and the entry's expiry
\* time)
GetStoriesFeedStart(r, actor) ==
  /\ sreq[r].pc = "idle"
  /\ sops < MaxOps
  /\ sops' = sops + 1
  /\ IF CacheHit(storyCache, actor)
       THEN /\ slast' = StoryResponse(
                 [IdleStory EXCEPT !.handler = "getStoriesFeed",
                                   !.actor = actor, !.status = 200,
                                   !.result = storyCache[actor].v,
                                   !.fromCache = TRUE,
                                   !.cachedUntil = storyCache[actor].t])
            /\ sreq' = sreq
       ELSE /\ slast' = slast
            /\ sreq' = [sreq EXCEPT ![r] =
                 [IdleStory EXCEPT !.pc = "findUser",
                                   !.handler = "getStoriesFeed",
                                   !.actor = actor]]
  /\ UNCHANGED <<stories, now, storyCache, ticks, seen>>
  /\ UNCHANGED othersStory

\* getStoriesFeed: await User.findById(currentUserId).select('following')
GetStoriesFeedFindUser(r) ==
  LET req == sreq[r] IN
  /\ req.pc = "findUser"
  /\ sreq' = [sreq EXCEPT ![r].pc = "aggregate",
                ![r].authors = RangeOf(users[req.actor].following)
                                 \cup {req.actor}]
  /\ UNCHANGED <<stories, now, storyCache, sops, ticks, slast, seen>>
  /\ UNCHANGED othersStory

\* getStoriesFeed: await Story.aggregate([{ $match: ... }, ...]), then
\* storyCache.set(cacheKey, result, 600)
GetStoriesFeedAggregate(r) ==
  LET req == sreq[r]
      result == VisibleStories(req.authors, now)
  IN
  /\ req.pc = "aggregate"
  /\ storyCache' = CacheSet(storyCache, req.actor, result, FeedCacheTTL)
  /\ sreq' = [sreq EXCEPT ![r].pc = "respond", ![r].status = 200,
                          ![r].result = result]
  /\ UNCHANGED <<stories, now, sops, ticks, slast, seen>>
  /\ UNCHANGED othersStory

\* getMyStories: await Story.find({ author, isActive, expiresAt })
GetMyStoriesFind(r) ==
  LET req == sreq[r] IN
  /\ req.pc = "find"
  /\ req.handler = "getMyStories"
  /\ sreq' = [sreq EXCEPT ![r].pc = "respond", ![r].status = 200,
                          ![r].result = VisibleStories({req.actor}, now)]
  /\ UNCHANGED <<stories, now, storyCache, sops, ticks, slast, seen>>
  /\ UNCHANGED othersStory

\* getUserStories: await User.findOne({ profileId }).select('_id')
GetUserStoriesFindUser(r) ==
  LET req == sreq[r] IN
  /\ req.pc = "find"
  /\ req.handler = "getUserStories"
  /\ sreq' = [sreq EXCEPT ![r] =
       IF req.profile \in Users
         THEN [@ EXCEPT !.pc = "findStories"]
         ELSE [@ EXCEPT !.pc = "respond", !.status = 404]]
  /\ UNCHANGED <<stories, now, storyCache, sops, ticks, slast, seen>>
  /\ UNCHANGED othersStory

\* getUserStories: await Story.find({ author, isActive, expiresAt })
GetUserStoriesFind(r) ==
  LET req == sreq[r] IN
  /\ req.pc = "findStories"
  /\ sreq' = [sreq EXCEPT ![r].pc = "respond", ![r].status = 200,
                          ![r].result = VisibleStories({req.profile}, now)]
  /\ UNCHANGED <<stories, now, storyCache, sops, ticks, slast, seen>>
  /\ UNCHANGED othersStory

\* viewStory without the expiry check
ViewStoryFind_NoExpiryCheck(r) ==
  LET req == sreq[r] IN
  /\ req.pc = "find"
  /\ req.handler = "viewStory"
  /\ sreq' = [sreq EXCEPT ![r] =
       IF ~Found(stories, req.id) \/ ~stories[req.id].isActive
         THEN [@ EXCEPT !.pc = "respond", !.status = 404]
       ELSE IF ~existingView(stories[req.id], req.actor)
         THEN [@ EXCEPT !.pc = "save", !.isNewView = TRUE,
                 !.doc = LocalPush(stories[req.id], "views", "viewsCount",
                                   req.actor)]
         ELSE [@ EXCEPT !.pc = "respond", !.status = 200,
                 !.isNewView = FALSE, !.doc = stories[req.id]]]
  /\ UNCHANGED <<stories, now, storyCache, sops, ticks, slast, seen>>
  /\ UNCHANGED othersStory

\* viewStory: await Story.findById(id), the expiry check, then addView()
\* up to this.save()
ViewStoryFind(r) ==
  LET req == sreq[r] IN
  /\ req.pc = "find"
  /\ req.handler = "viewStory"
  /\ sreq' = [sreq EXCEPT ![r] =
       IF ~Found(stories, req.id) \/ ~stories[req.id].isActive
         THEN [@ EXCEPT !.pc = "respond", !.status = 404]
       ELSE IF stories[req.id].expiresAt <= now
         THEN [@ EXCEPT !.pc = "respond", !.status = 410]
       ELSE IF ~existingView(stories[req.id], req.actor)
         THEN [@ EXCEPT !.pc = "save", !.isNewView = TRUE,
                 !.doc = LocalPush(stories[req.id], "views", "viewsCount",
                                   req.actor)]
         ELSE [@ EXCEPT !.pc = "respond", !.status = 200,
                 !.isNewView = FALSE, !.doc = stories[req.id]]]
  /\ UNCHANGED <<stories, now, storyCache, sops, ticks, slast, seen>>
  /\ UNCHANGED othersStory

\* viewStory: await this.save() inside addView()
ViewStorySave(r) ==
  LET req == sreq[r] IN
  /\ req.pc = "save"
  /\ req.handler = "viewStory"
  /\ stories' = [stories EXCEPT ![req.id] =
       SavePush(@, req.doc, "views", "viewsCount", req.actor)]
  /\ sreq' = [sreq EXCEPT ![r].pc = "respond", ![r].status = 200,
                          ![r].op = "flush"]
  /\ UNCHANGED <<now, storyCache, sops, ticks, slast, seen>>
  /\ UNCHANGED othersStory

\* deleteStory: await Story.findById(id), the author check, isActive = false
DeleteStoryFind(r) ==
  LET req == sreq[r] IN
  /\ req.pc = "find"
  /\ req.handler = "deleteStory"
  /\ sreq' = [sreq EXCEPT ![r] =
       IF ~Found(stories, req.id)
         THEN [@ EXCEPT !.pc = "respond", !.status = 404]
       ELSE IF stories[req.id].author # req.actor
         THEN [@ EXCEPT !.pc = "respond", !.status = 403]
         ELSE [@ EXCEPT !.pc = "save",
                 !.doc = [stories[req.id] EXCEPT !.isActive = FALSE]]]
  /\ UNCHANGED <<stories, now, storyCache, sops, ticks, slast, seen>>
  /\ UNCHANGED othersStory

\* deleteStory: await story.save()
DeleteStorySave(r) ==
  LET req == sreq[r] IN
  /\ req.pc = "save"
  /\ req.handler = "deleteStory"
  /\ stories' = [stories EXCEPT ![req.id] = SaveField(@, req.doc, "isActive")]
  /\ sreq' = [sreq EXCEPT ![r].pc = "respond", ![r].status = 200,
                          ![r].op = "flush"]
  /\ UNCHANGED <<now, storyCache, sops, ticks, slast, seen>>
  /\ UNCHANGED othersStory

\* the code after the last await of a story handler: storyCache.flushAll()
\* where the handler clears the cache, then res.status(...).json(...)
StoryRespond(r) ==
  LET req == sreq[r] IN
  /\ req.pc = "respond"
  /\ storyCache' = IF req.op = "flush" THEN EmptyCache ELSE storyCache
  /\ slast' = StoryResponse(req)
  /\ seen' = IF req.handler = "viewStory" /\ req.status = 200
               THEN [seen EXCEPT ![req.id][req.actor] = TRUE]
               ELSE seen
  /\ sreq' = [sreq EXCEPT ![r] = IdleStory]
  /\ UNCHANGED <<stories, now, sops, ticks>>
  /\ UNCHANGED othersStory

\* time passes; a request is short against a clock step, so the clock
\* moves between requests
ClockSteps == {FeedCacheTTL \div 3, StoryLifetime - FeedCacheTTL \div 3}

Tick(d) ==
  /\ \A r \in Slots : sreq[r].pc = "idle"
  /\ ticks < MaxTicks
  /\ ticks' = ticks + 1
  /\ now' = now + d
  /\ UNCHANGED <<stories, storyCache, sreq, sops, slast, seen>>
  /\ UNCHANGED othersStory

createStory(r) ==
  \/ \E u \in Users : StoryStart(r, "createStory", u, NoStory, NoUser)
  \/ \E u \in Users : CreateStoryNoFile(r, u)
  \/ CreateStorySave(r)

getStoriesFeed(r) ==
  \/ \E u \in Users : GetStoriesFeedStart(r, u)
  \/ GetStoriesFeedFindUser(r)
  \/ GetStoriesFeedAggregate(r)

getMyStories(r) ==
  \/ \E u \in Users : StoryStart(r, "getMyStories", u, NoStory, NoUser)
  \/ GetMyStoriesFind(r)

getUserStories(r) ==
  \/ \E u \in Users, pr \in Users \cup {GhostProfile} :
       StoryStart(r, "getUserStories", u, NoStory, pr)
  \/ GetUserStoriesFindUser(r)
  \/ GetUserStoriesFind(r)

viewStory(r) ==
  \/ \E u \in Users, s \in StoryIds :
       StoryStart(r, "viewStory", u, s, NoUser)
  \/ ViewStoryFind(r)
  \/ ViewStorySave(r)

deleteStory(r) ==
  \/ \E u \in Users, s \in StoryIds :
       StoryStart(r, "deleteStory", u, s, NoUser)
  \/ DeleteStoryFind(r)
  \/ DeleteStorySave(r)

\* ------------------------------------------------------ profile reads
\* userCache.set(cacheKey, user, 1800) in the profile handlers, and the
\* stdTTL of userCache that protect's userCache.set(cacheKey, user) takes
UserCacheTTL == 1800
UserCacheStdTTL == 3600

IdleUserRead ==
  [pc |-> "idle", handler |-> "none", actor |-> NoUser, param |-> NoUser,
   status |-> 0, user |-> NewUser, fromCache |-> FALSE, body |-> <<>>]

NoUserReadResponse ==
  [handler |-> "none", actor |-> NoUser, param |-> NoUser, status |-> 0,
   user |-> NewUser, fromCache |-> FALSE]

\* GET /api/users/profile enters protect: userCache.get('user:<id>'); on a
\* hit protect calls next() and getCurrentUserProfile reads the same entry
\* and answers
GetCurrentUserProfileStart(r, u) ==
  /\ ureq[r].pc = "idle"
  /\ uops < MaxOps
  /\ uops' = uops + 1
  /\ ureq' = [ureq EXCEPT ![r] =
       IF CacheHit(userCache, <<"user", u>>)
         THEN [IdleUserRead EXCEPT !.pc = "respond",
                 !.handler = "getCurrentUserProfile", !.actor = u,
                 !.status = 200, !.user = userCache[<<"user", u>>].v,
                 !.fromCache = TRUE]
         ELSE [IdleUserRead EXCEPT !.pc = "protectFind",
                 !.handler = "getCurrentUserProfile", !.actor = u]]
  /\ UNCHANGED <<userCache, ulast>>
  /\ UNCHANGED othersUserRead

\* protect: await User.findById(decoded.id), userCache.set(cacheKey, user),
\* next(); getCurrentUserProfile then finds the entry just set and answers
\* with it
ProtectFind(r) ==
  LET req == ureq[r] IN
  /\ req.pc = "protectFind"
  /\ userCache' = CacheSet(userCache, <<"user", req.actor>>,
                           users[req.actor], UserCacheStdTTL)
  /\ ureq' = [ureq EXCEPT ![r].pc = "respond", ![r].status = 200,
                          ![r].user = users[req.actor]]
  /\ UNCHANGED <<uops, ulast>>
  /\ UNCHANGED othersUserRead

\* GET /api/users/:profileId enters getUserProfile:
\* userCache.get('profile:<profileId>')
GetUserProfileStart(r, viewer, p) ==
  /\ ureq[r].pc = "idle"
  /\ uops < MaxOps
  /\ uops' = uops + 1
  /\ ureq' = [ureq EXCEPT ![r] =
       IF CacheHit(userCache, <<"profile", p>>)
         THEN [IdleUserRead EXCEPT !.pc = "respond",
                 !.handler = "getUserProfile", !.actor = viewer,
                 !.param = p, !.status = 200,
                 !.user = userCache[<<"profile", p>>].v, !.fromCache = TRUE]
         ELSE [IdleUserRead EXCEPT !.pc = "find",
                 !.handler = "getUserProfile", !.actor = viewer,
                 !.param = p]]
  /\ UNCHANGED <<userCache, ulast>>
  /\ UNCHANGED othersUserRead

\* getUserProfile: await User.findOne({ profileId }), then
\* userCache.set(cacheKey, user, 1800)
GetUserProfileFind(r) ==
  LET req == ureq[r]
      found == ProfileOwner(req.param)
  IN
  /\ req.pc = "find"
  /\ IF found \in Users
       THEN /\ userCache' = CacheSet(userCache, <<"profile", req.param>>,
                                     users[found], UserCacheTTL)
            /\ ureq' = [ureq EXCEPT ![r].pc = "respond", ![r].status = 200,
                                    ![r].user = users[found]]
       ELSE /\ userCache' = userCache
            /\ ureq' = [ureq EXCEPT ![r].pc = "respond", ![r].status = 404]
  /\ UNCHANGED <<uops, ulast>>
  /\ UNCHANGED othersUserRead

\* res.status(...).json(...) of a profile read
UserReadRespond(r) ==
  LET req == ureq[r] IN
  /\ req.pc = "respond"
  /\ ulast' = [handler |-> req.handler, actor |-> req.actor,
               param |-> req.param, status |-> req.status,
               user |-> req.user, fromCache |-> req.fromCache]
  /\ ureq' = [ureq EXCEPT ![r] = IdleUserRead]
  /\ UNCHANGED <<userCache, uops>>
  /\ UNCHANGED othersUserRead

getCurrentUserProfile(r) ==
  \/ \E u \in Users : GetCurrentUserProfileStart(r, u)
  \/ ProtectFind(r)

getUserProfile(r) ==
  \/ \E p \in Users \cup {GhostProfile} : GetUserProfileStart(r, NoUser, p)
  \/ GetUserProfileFind(r)

\* ------------------------------------------------------------ updateProfile
\* the keys that updateProfile deletes from its copy of req.body
Protected ==
  {"phone", "followers", "following", "followersCount", "followingCount",
   "postsCount"}

\* request bodies: a new name, a top-level followersCount, and update
\* operators around protected fields
ProfileBodies ==
  {"name" :> "renamed",
   "followersCount" :> 7,
   "$set" :> ("followersCount" :> 7),
   "$set" :> ("phone" :> "000"),
   "$inc" :> ("postsCount" :> 1)}

\* updateData = { ...req.body } after the delete statements
Stripped(body) == [k \in DOMAIN body \ Protected |-> body[k]]

\* the part of an update document under one operator
Under(update, op) == IF op \in DOMAIN update THEN update[op] ELSE <<>>

\* User.findByIdAndUpdate(userId, updateData): the keys of updateData that
\* are not operators are moved under $set, and $set and $inc are applied
\* to the paths the schema has
ApplyProfileUpdate(doc, update) ==
  LET plain == [k \in DOMAIN update \ {"$set", "$inc"} |-> update[k]]
      set == plain @@ Under(update, "$set")
      inc == Under(update, "$inc")
  IN [f \in DOMAIN doc |->
        IF f \in DOMAIN set THEN set[f]
        ELSE IF f \in DOMAIN inc THEN doc[f] + inc[f]
        ELSE doc[f]]

\* a request with a valid token enters updateProfile
UpdateProfileStart(r, actor, body) ==
  /\ ureq[r].pc = "idle"
  /\ uops < MaxOps
  /\ uops' = uops + 1
  /\ ureq' = [ureq EXCEPT ![r] =
       [IdleUserRead EXCEPT !.pc = "update", !.handler = "updateProfile",
                            !.actor = actor, !.body = Stripped(body)]]
  /\ UNCHANGED <<userCache, ulast>>
  /\ UNCHANGED othersUserRead

\* updateProfile: await User.findByIdAndUpdate(userId, updateData, ...)
UpdateProfileUpdate(r) ==
  LET req == ureq[r] IN
  /\ req.pc = "update"
  /\ users' = [users EXCEPT ![req.actor] = ApplyProfileUpdate(@, req.body)]
  /\ ureq' = [ureq EXCEPT ![r].pc = "profileRespond", ![r].status = 200,
                          ![r].user = users'[req.actor]]
  /\ UNCHANGED <<userCache, uops, ulast>>
  /\ UNCHANGED othersProfile

\* updateProfile: userCache.del('user:id'), userCache.del('profile:id'),
\* then res.status(200).json(...)
UpdateProfileRespond(r) ==
  LET req == ureq[r] IN
  /\ req.pc = "profileRespond"
  /\ userCache' = CacheDel(CacheDel(userCache, <<"user", req.actor>>),
                           <<"profile", req.actor>>)
  /\ ulast' = [NoUserReadResponse EXCEPT
                 !.handler = "updateProfile", !.actor = req.actor,
                 !.status = req.status, !.user = req.user]
  /\ ureq' = [ureq EXCEPT ![r] = IdleUserRead]
  /\ UNCHANGED uops
  /\ UNCHANGED othersUserRead

updateProfile(r) ==
  \/ \E u \in Users, b \in ProfileBodies : UpdateProfileStart(r, u, b)
  \/ UpdateProfileUpdate(r)
  \/ UpdateProfileRespond(r)

\* ------------------------------------------------------------------ getPost
\* getPost: postCache.set(cacheKey, post, 1800)
PostCacheTTL == 1800
\* getTrendingPosts: the key of the first page, and
\* postCache.set(cacheKey, result, 900)
TrendingKey == "trending"
TrendingCacheTTL == 900

\* the lean post document without its likes array
PostView(doc) ==
  [author |-> doc.author, likesCount |-> doc.likesCount,
   commentsCount |-> doc.commentsCount, visibility |-> doc.visibility,
   isActive |-> doc.isActive]

IdleGetPost ==
  [pc |-> "idle", actor |-> NoUser, id |-> MissingId, status |-> 0,
   post |-> PostView(NewPost(NoUser)), fromCache |-> FALSE,
   cacheFailed |-> FALSE, quiet |-> FALSE, cops |-> 0,
   following |-> <<>>, feed |-> {}, due |-> {}]

NoGetPostResponse ==
  [actor |-> NoUser, id |-> MissingId, status |-> 0, likesCount |-> 0,
   fromCache |-> FALSE, cacheFailed |-> FALSE, settled |-> FALSE,
   stored |-> 0, handler |-> "none", feed |-> {}, due |-> {}]

\* where getPost continues once it holds the post: the liked-by query for
\* an authenticated caller, the response otherwise
AfterPostLoaded(actor) == IF actor # NoUser THEN "liked" ELSE "respond"

\* the request enters getPost: postCache.get(cacheKey); a hit skips the
\* store (noted: whether a post / comment request was in flight, and how
\* many had started)
GetPostStart(r, actor, id) ==
  /\ greq[r].pc = "idle"
  /\ gops < MaxOps
  /\ gops' = gops + 1
  /\ greq' = [greq EXCEPT ![r] =
       IF CacheHit(postCache, id)
         THEN [IdleGetPost EXCEPT !.pc = AfterPostLoaded(actor),
                 !.actor = actor, !.id = id, !.status = 200,
                 !.post = postCache[id].v, !.fromCache = TRUE,
                 !.quiet = \A q \in Slots : creq[q].pc = "idle",
                 !.cops = cops]
         ELSE [IdleGetPost EXCEPT !.pc = "find", !.actor = actor, !.id = id,
                 !.quiet = \A q \in Slots : creq[q].pc = "idle",
                 !.cops = cops]]
  /\ UNCHANGED <<postCache, glast>>
  /\ UNCHANGED othersGetPost

\* getPost: await Post.findById(id)...: the query for the post
GetPostFind(r) ==
  LET req == greq[r] IN
  /\ req.pc = "find"
  /\ greq' = [greq EXCEPT ![r] =
       IF ~Found(posts, req.id)
         THEN [@ EXCEPT !.pc = "respond", !.status = 404]
         ELSE [@ EXCEPT !.pc = "populate", !.post = PostView(posts[req.id])]]
  /\ UNCHANGED <<postCache, gops, glast>>
  /\ UNCHANGED othersGetPost

\* getPost: the populate('author') query of the same await, then the
\* isActive check, the visibility check and postCache.set
GetPostPopulate(r) ==
  LET req == greq[r] IN
  /\ req.pc = "populate"
  /\ IF ~req.post.isActive
       THEN /\ greq' = [greq EXCEPT ![r].pc = "respond", ![r].status = 404]
            /\ postCache' = postCache
     ELSE IF /\ req.post.visibility = "private"
             /\ (req.actor = NoUser \/ req.post.author # req.actor)
       THEN /\ greq' = [greq EXCEPT ![r].pc = "respond", ![r].status = 403]
            /\ postCache' = postCache
       ELSE /\ greq' = [greq EXCEPT ![r].pc = AfterPostLoaded(req.actor),
                                    ![r].status = 200]
            /\ postCache' = CacheSet(postCache, req.id, req.post, PostCacheTTL)
  /\ UNCHANGED <<gops, glast>>
  /\ UNCHANGED othersGetPost

\* getPost: the post is loaded and active, and postCache.set(...) throws:
\* the handler's catch answers 500
GetPostSetThrows(r) ==
  LET req == greq[r] IN
  /\ req.pc = "populate"
  /\ req.post.isActive
  /\ greq' = [greq EXCEPT ![r].pc = "respond", ![r].status = 500,
                          ![r].cacheFailed = TRUE]
  /\ UNCHANGED <<postCache, gops, glast>>
  /\ UNCHANGED othersGetPost

\* getPost: await Post.findOne({ _id, 'likes.user' }) for isLikedByUser
GetPostLiked(r) ==
  LET req == greq[r] IN
  /\ req.pc = "liked"
  /\ greq' = [greq EXCEPT ![r].pc = "respond"]
  /\ UNCHANGED <<postCache, gops, glast>>
  /\ UNCHANGED othersGetPost

\* res.status(...).json(...) of getPost (settled: no post / comment request
\* was in flight when the request started and none has started since)
GetPostRespond(r) ==
  LET req == greq[r] IN
  /\ req.pc = "respond"
  /\ glast' = [actor |-> req.actor, id |-> req.id, status |-> req.status,
               likesCount |-> req.post.likesCount,
               fromCache |-> req.fromCache,
               cacheFailed |-> req.cacheFailed,
               settled |-> req.quiet /\ req.cops = cops,
               stored |-> IF Found(posts, req.id)
                            THEN posts[req.id].likesCount ELSE 0,
               handler |-> "getPost", feed |-> {}, due |-> {}]
  /\ greq' = [greq EXCEPT ![r] = IdleGetPost]
  /\ UNCHANGED <<postCache, gops>>
  /\ UNCHANGED othersGetPost

\* ------------------------------------------------------------- getHomeFeed
\* getHomeFeed: the cache key `feed:${currentUserId}:${page}:${limit}` of
\* the first page, and postCache.set(cacheKey, result, 300)
HomeFeedKey == [u1 |-> "feed:u1", u2 |-> "feed:u2", u3 |-> "feed:u3"]
HomeFeedCacheTTL == 300

\* the request enters getHomeFeed: postCache.get(cacheKey); a hit is the
\* response (noted: the caller's active posts at that moment)
GetHomeFeedStart(r, actor) ==
  LET due == {p \in DOMAIN posts :
                posts[p].author = actor /\ posts[p].isActive}
  IN
  /\ greq[r].pc = "idle"
  /\ gops < MaxOps
  /\ gops' = gops + 1
  /\ greq' = [greq EXCEPT ![r] =
       IF CacheHit(postCache, HomeFeedKey[actor])
         THEN [IdleGetPost EXCEPT !.pc = "feedRespond", !.actor = actor,
                 !.status = 200, !.fromCache = TRUE, !.due = due,
                 !.feed = postCache[HomeFeedKey[actor]].v]
         ELSE [IdleGetPost EXCEPT !.pc = "feedUser", !.actor = actor,
                 !.due = due]]
  /\ UNCHANGED <<postCache, glast>>
  /\ UNCHANGED othersGetPost

\* getHomeFeed: await User.findById(currentUserId).select('following')
GetHomeFeedFindUser(r) ==
  LET req == greq[r] IN
  /\ req.pc = "feedUser"
  /\ greq' = [greq EXCEPT ![r].pc = "feedFind",
                          ![r].following = users[req.actor].following]
  /\ UNCHANGED <<postCache, gops, glast>>
  /\ UNCHANGED othersGetPost

\* getHomeFeed: await Post.find({$or: [author in followingIds, public],
\* isActive: true}) (a page holds more posts than the store ever does)
GetHomeFeedFind(r) ==
  LET req == greq[r]
      followingIds == RangeOf(req.following) \cup {req.actor}
  IN
  /\ req.pc = "feedFind"
  /\ greq' = [greq EXCEPT ![r].pc = "feedLiked",
       ![r].feed = {p \in DOMAIN posts :
                      /\ posts[p].isActive
                      /\ \/ posts[p].author \in followingIds
                         \/ posts[p].visibility = "public"}]
  /\ UNCHANGED <<postCache, gops, glast>>
  /\ UNCHANGED othersGetPost

\* getHomeFeed: await Post.find({_id in page, 'likes.user'}) for the like
\* status of the page
GetHomeFeedLiked(r) ==
  /\ greq[r].pc = "feedLiked"
  /\ greq' = [greq EXCEPT ![r].pc = "feedCount"]
  /\ UNCHANGED <<postCache, gops, glast>>
  /\ UNCHANGED othersGetPost

\* getHomeFeed: await Post.countDocuments(...), then postCache.set
GetHomeFeedCount(r) ==
  LET req == greq[r] IN
  /\ req.pc = "feedCount"
  /\ greq' = [greq EXCEPT ![r].pc = "feedRespond", ![r].status = 200]
  /\ postCache' = CacheSet(postCache, HomeFeedKey[req.actor], req.feed,
                           HomeFeedCacheTTL)
  /\ UNCHANGED <<gops, glast>>
  /\ UNCHANGED othersGetPost

\* res.status(200).json(...) of getHomeFeed
GetHomeFeedRespond(r) ==
  LET req == greq[r] IN
  /\ req.pc = "feedRespond"
  /\ glast' = [NoGetPostResponse EXCEPT
                 !.handler = "getHomeFeed", !.actor = req.actor,
                 !.status = req.status, !.fromCache = req.fromCache,
                 !.feed = req.feed, !.due = req.due]
  /\ greq' = [greq EXCEPT ![r] = IdleGetPost]
  /\ UNCHANGED <<postCache, gops>>
  /\ UNCHANGED othersGetPost

getHomeFeed(r) ==
  \/ GetHomeFeedFindUser(r)
  \/ GetHomeFeedFind(r)
  \/ GetHomeFeedLiked(r)
  \/ GetHomeFeedCount(r)
  \/ GetHomeFeedRespond(r)

getPost(r) ==
  \/ \E u \in Users \cup {NoUser}, p \in PostIds \cup {MissingId} :
       GetPostStart(r, u, p)
  \/ GetPostFind(r)
  \/ GetPostPopulate(r)
  \/ GetPostLiked(r)
  \/ GetPostRespond(r)

\* ---------------------------------------------------------------- services
ServiceIds == {"s1"}
MissingService == "s0"

\* a rating average, kept as the exact quotient num / den
Quotient(n, d) == [num |-> n, den |-> d]
SameQuotient(a, b) == a.num * b.den = b.num * a.den

\* serviceSchema defaults: rating.average 0, rating.count 0, no reviews
NewService(provider) ==
  [provider |-> provider, title |-> "title", reviews |-> <<>>,
   average |-> Quotient(0, 1), count |-> 0, isActive |-> TRUE, v |-> 0]

\* reviews.reduce((sum, review) => sum + review.rating, 0)
RECURSIVE TotalRating(_)
TotalRating(reviews) ==
  IF reviews = <<>> THEN 0
  ELSE Head(reviews).rating + TotalRating(Tail(reviews))

\* a duplicate check that never finds a review
existingReview_Never(doc, userId) == FALSE

\* addReview: this.rating.reviews.find(review => review.user == userId)
existingReview(doc, userId) ==
  \E i \in 1..Len(doc.reviews) : doc.reviews[i].user = userId

\* addReview up to this.save(): push the review, recompute average and
\* count from the local reviews
LocalReview(doc, userId, rating) ==
  LET reviews == Append(doc.reviews, [user |-> userId, rating |-> rating]) IN
  [doc EXCEPT !.reviews = reviews,
              !.average = Quotient(TotalRating(reviews), Len(reviews)),
              !.count = Len(reviews)]

\* save() after addReview: {$push: {reviews}, $set: {average, count},
\* $inc: {__v: 1}}
SaveReview(stored, local) ==
  [stored EXCEPT !.reviews = Append(@, local.reviews[Len(local.reviews)]),
                 !.average = local.average,
                 !.count = local.count,
                 !.v = @ + 1]

\* the request bodies of updateService: a new title, isActive: true, and
\* rating.average: 5
UpdateBodies ==
  {[title |-> "retitled"], [isActive |-> TRUE], [average |-> Quotient(5, 1)]}

\* Service.findByIdAndUpdate(id, updateData): $set of every field of the
\* body that the schema has
ApplyUpdate(doc, body) ==
  [f \in DOMAIN doc |-> IF f \in DOMAIN body THEN body[f] ELSE doc[f]]

IdleService ==
  [pc |-> "idle", handler |-> "none", actor |-> NoUser, id |-> MissingService,
   rating |-> 0, body |-> <<>>, doc |-> NewService(NoUser), status |-> 0,
   result |-> {}, pre |-> <<>>]

NoServiceResponse ==
  [handler |-> "none", actor |-> NoUser, id |-> MissingService, rating |-> 0,
   status |-> 0, result |-> {}, pre |-> <<>>, post |-> <<>>]

\* a request enters updateService or deleteService
ServiceStart(r, handler, actor, id, body, traced) ==
  /\ vreq[r].pc = "idle"
  /\ vops < MaxOps
  /\ vops' = vops + 1
  /\ vreq' = [vreq EXCEPT ![r] =
       [IdleService EXCEPT !.pc = "find", !.handler = handler,
                           !.actor = actor, !.id = id, !.body = body,
                           !.pre = IF traced THEN services ELSE <<>>]]
  /\ UNCHANGED <<services, serviceCache, vlast>>
  /\ UNCHANGED othersService

\* a request enters addServiceReview: a rating that is missing, zero, below
\* 1 or above 5 is answered 400 before any store call
AddServiceReviewStart(r, actor, id, rating, traced) ==
  /\ vreq[r].pc = "idle"
  /\ vops < MaxOps
  /\ vops' = vops + 1
  /\ vreq' = [vreq EXCEPT ![r] =
       [IdleService EXCEPT
          !.pc = IF rating = 0 \/ rating < 1 \/ rating > 5
                   THEN "respond" ELSE "find",
          !.status = IF rating = 0 \/ rating < 1 \/ rating > 5
                       THEN 400 ELSE 0,
          !.handler = "addServiceReview", !.actor = actor, !.id = id,
          !.rating = rating,
          !.pre = IF traced THEN services ELSE <<>>]]
  /\ UNCHANGED <<services, serviceCache, vlast>>
  /\ UNCHANGED othersService

\* addServiceReview: await Service.findById(id), the checks, then
\* addReview() up to this.save()
AddServiceReviewFind(r) ==
  LET req == vreq[r] IN
  /\ req.pc = "find"
  /\ req.handler = "addServiceReview"
  /\ vreq' = [vreq EXCEPT ![r] =
       IF ~Found(services, req.id) \/ ~services[req.id].isActive
         THEN [@ EXCEPT !.pc = "respond", !.status = 404]
       ELSE IF services[req.id].provider = req.actor
         THEN [@ EXCEPT !.pc = "respond", !.status = 400]
       ELSE IF existingReview(services[req.id], req.actor)
         THEN [@ EXCEPT !.pc = "respond", !.status = 400]
         ELSE [@ EXCEPT !.pc = "save",
                 !.doc = LocalReview(services[req.id], req.actor, req.rating)]]
  /\ UNCHANGED <<services, serviceCache, vops, vlast>>
  /\ UNCHANGED othersService

\* addServiceReview: await this.save() inside addReview()
AddServiceReviewSave(r) ==
  LET req == vreq[r] IN
  /\ req.pc = "save"
  /\ req.handler = "addServiceReview"
  /\ services' = [services EXCEPT ![req.id] = SaveReview(@, req.doc)]
  /\ vreq' = [vreq EXCEPT ![r].pc = "respond", ![r].status = 201]
  /\ UNCHANGED <<serviceCache, vops, vlast>>
  /\ UNCHANGED othersService

\* updateService: await Service.findById(id), the provider check
UpdateServiceFind(r) ==
  LET req == vreq[r] IN
  /\ req.pc = "find"
  /\ req.handler = "updateService"
  /\ vreq' = [vreq EXCEPT ![r] =
       IF ~Found(services, req.id)
         THEN [@ EXCEPT !.pc = "respond", !.status = 404]
       ELSE IF services[req.id].provider # req.actor
         THEN [@ EXCEPT !.pc = "respond", !.status = 403]
         ELSE [@ EXCEPT !.pc = "update"]]
  /\ UNCHANGED <<services, serviceCache, vops, vlast>>
  /\ UNCHANGED othersService

\* updateService: await Service.findByIdAndUpdate(id, updateData, ...)
UpdateServiceUpdate(r) ==
  LET req == vreq[r] IN
  /\ req.pc = "update"
  /\ services' = [services EXCEPT ![req.id] = ApplyUpdate(@, req.body)]
  /\ vreq' = [vreq EXCEPT ![r].pc = "respond", ![r].status = 200]
  /\ UNCHANGED <<serviceCache, vops, vlast>>
  /\ UNCHANGED othersService

\* deleteService: await Service.findById(id), the provider check,
\* service.isActive = false
DeleteServiceFind(r) ==
  LET req == vreq[r] IN
  /\ req.pc = "find"
  /\ req.handler = "deleteService"
  /\ vreq' = [vreq EXCEPT ![r] =
       IF ~Found(services, req.id)
         THEN [@ EXCEPT !.pc = "respond", !.status = 404]
       ELSE IF services[req.id].provider # req.actor
         THEN [@ EXCEPT !.pc = "respond", !.status = 403]
         ELSE [@ EXCEPT !.pc = "save",
                 !.doc = [services[req.id] EXCEPT !.isActive = FALSE]]]
  /\ UNCHANGED <<services, serviceCache, vops, vlast>>
  /\ UNCHANGED othersService

\* deleteService: await service.save()
DeleteServiceSave(r) ==
  LET req == vreq[r] IN
  /\ req.pc = "save"
  /\ req.handler = "deleteService"
  /\ services' = [services EXCEPT ![req.id] = SaveField(@, req.doc, "isActive")]
  /\ vreq' = [vreq EXCEPT ![r].pc = "respond", ![r].status = 200]
  /\ UNCHANGED <<serviceCache, vops, vlast>>
  /\ UNCHANGED othersService

\* getMyServices: await Service.find({ provider: userId }); a listing is
\* modelled by the set of service ids it contains
GetMyServicesFind(r) ==
  LET req == vreq[r] IN
  /\ req.pc = "find"
  /\ req.handler = "getMyServices"
  /\ vreq' = [vreq EXCEPT ![r].pc = "count",
                ![r].result = {s \in DOMAIN services :
                                 services[s].provider = req.actor}]
  /\ UNCHANGED <<services, serviceCache, vops, vlast>>
  /\ UNCHANGED othersService

\* getMyServices: await Service.countDocuments({ provider: userId })
GetMyServicesCount(r) ==
  LET req == vreq[r] IN
  /\ req.pc = "count"
  /\ req.handler = "getMyServices"
  /\ vreq' = [vreq EXCEPT ![r].pc = "respond", ![r].status = 200]
  /\ UNCHANGED <<services, serviceCache, vops, vlast>>
  /\ UNCHANGED othersService

\* the cache calls between the last await of a service handler and its
\* response: updateService and deleteService do serviceCache.del and
\* serviceCache.flushAll(), addServiceReview does serviceCache.del
ServiceCacheAfter(req) ==
  IF req.handler \in {"updateService", "deleteService"} /\ req.status = 200
    THEN Flushed(CacheDel(serviceCache, req.id))
  ELSE IF req.handler = "addServiceReview" /\ req.status = 201
    THEN CacheDel(serviceCache, req.id)
    ELSE serviceCache

\* the code after the last await of a service handler, then
\* res.status(...).json(...)
ServiceRespond(r, traced) ==
  LET req == vreq[r] IN
  /\ req.pc = "respond"
  /\ vlast' = IF traced
                THEN [handler |-> req.handler, actor |-> req.actor,
                      id |-> req.id, rating |-> req.rating,
                      status |-> req.status, result |-> req.result,
                      pre |-> req.pre, post |-> services]
                ELSE vlast
  /\ serviceCache' = ServiceCacheAfter(req)
  /\ vreq' = [vreq EXCEPT ![r] = IdleService]
  /\ UNCHANGED <<services, vops>>
  /\ UNCHANGED othersService

\* the ratings a review request carries
Ratings == {0, 4, 5, 6}

addServiceReview(r, traced) ==
  \/ \E u \in Users, s \in ServiceIds \cup {MissingService}, n \in Ratings :
       AddServiceReviewStart(r, u, s, n, traced)
  \/ AddServiceReviewFind(r)
  \/ AddServiceReviewSave(r)

updateService(r, traced) ==
  \/ \E u \in Users, s \in ServiceIds \cup {MissingService},
        b \in UpdateBodies :
       ServiceStart(r, "updateService", u, s, b, traced)
  \/ UpdateServiceFind(r)
  \/ UpdateServiceUpdate(r)

getMyServices(r, traced) ==
  \/ \E u \in Users :
       ServiceStart(r, "getMyServices", u, MissingService, <<>>, traced)
  \/ GetMyServicesFind(r)
  \/ GetMyServicesCount(r)

deleteService(r, traced) ==
  \/ \E u \in Users, s \in ServiceIds \cup {MissingService} :
       ServiceStart(r, "deleteService", u, s, <<>>, traced)
  \/ DeleteServiceFind(r)
  \/ DeleteServiceSave(r)

\* ----------------------------------------------------------- advertisements
AdIds == {"a1"}
MissingAd == "a0"
FeedKey == "ads_feed"

\* getAdvertisementsFeed: adCache.set(cacheKey, result, 900)
AdCacheTTL == 900

\* advertisementSchema: status, isActive, schedule, metrics.impressions
NewAd(startDate, endDate) ==
  [status |-> "active", isActive |-> TRUE, startDate |-> startDate,
   endDate |-> endDate, impressions |-> 0]

\* matchCriteria of getAdvertisementsFeed at the given date; a batch is
\* modelled by the set of advertisement ids it contains
EligibleAds(date) ==
  {a \in DOMAIN ads :
     /\ ads[a].status = "active"
     /\ ads[a].isActive
     /\ ads[a].startDate <= date
     /\ ads[a].endDate >= date}

\* updateMany({ _id: { $in: batch } }, { $inc: { 'metrics.impressions': 1 } })
Impressed(batch) ==
  [a \in DOMAIN ads |->
     IF a \in batch THEN [ads[a] EXCEPT !.impressions = @ + 1] ELSE ads[a]]

IdleAd ==
  [pc |-> "idle", handler |-> "none", id |-> MissingAd, status |-> 0,
   result |-> {}, fromCache |-> FALSE, doc |-> NewAd(0, 0), pre |-> <<>>]

NoAdResponse ==
  [handler |-> "none", id |-> MissingAd, status |-> 0, result |-> {},
   fromCache |-> FALSE, at |-> 0, pre |-> <<>>, post |-> <<>>]

\* a request enters getAdvertisementsFeed: adCache.get(cacheKey); a cached
\* batch is answered at once
GetAdvertisementsFeedStart(r) ==
  /\ areq[r].pc = "idle"
  /\ aops < MaxOps
  /\ aops' = aops + 1
  /\ areq' = [areq EXCEPT ![r] =
       IF CacheHit(adCache, FeedKey)
         THEN [IdleAd EXCEPT !.pc = "respond",
                             !.handler = "getAdvertisementsFeed",
                             !.status = 200, !.fromCache = TRUE,
                             !.result = adCache[FeedKey].v, !.pre = ads]
         ELSE [IdleAd EXCEPT !.pc = "find",
                             !.handler = "getAdvertisementsFeed",
                             !.pre = ads]]
  /\ UNCHANGED <<ads, adCache, alast>>
  /\ UNCHANGED othersAd

\* getAdvertisementsFeed: await Advertisement.find(matchCriteria)
GetAdvertisementsFeedFind(r) ==
  LET req == areq[r] IN
  /\ req.pc = "find"
  /\ req.handler = "getAdvertisementsFeed"
  /\ areq' = [areq EXCEPT ![r].pc = "record", ![r].result = EligibleAds(now)]
  /\ UNCHANGED <<ads, adCache, aops, alast>>
  /\ UNCHANGED othersAd

\* getAdvertisementsFeed: await Advertisement.updateMany(...)
GetAdvertisementsFeedRecord(r) ==
  LET req == areq[r] IN
  /\ req.pc = "record"
  /\ ads' = Impressed(req.result)
  /\ areq' = [areq EXCEPT ![r].pc = "respond", ![r].status = 200]
  /\ UNCHANGED <<adCache, aops, alast>>
  /\ UNCHANGED othersAd

\* a request enters deleteAdvertisement
DeleteAdvertisementStart(r, id) ==
  /\ areq[r].pc = "idle"
  /\ aops < MaxOps
  /\ aops' = aops + 1
  /\ areq' = [areq EXCEPT ![r] =
       [IdleAd EXCEPT !.pc = "find", !.handler = "deleteAdvertisement",
                      !.id = id, !.pre = ads]]
  /\ UNCHANGED <<ads, adCache, alast>>
  /\ UNCHANGED othersAd

\* deleteAdvertisement: await Advertisement.findById(id), isActive = false,
\* status = 'completed'
DeleteAdvertisementFind(r) ==
  LET req == areq[r] IN
  /\ req.pc = "find"
  /\ req.handler = "deleteAdvertisement"
  /\ areq' = [areq EXCEPT ![r] =
       IF ~Found(ads, req.id)
         THEN [@ EXCEPT !.pc = "respond", !.status = 404]
         ELSE [@ EXCEPT !.pc = "save",
                 !.doc = [ads[req.id] EXCEPT !.isActive = FALSE,
                                             !.status = "completed"]]]
  /\ UNCHANGED <<ads, adCache, aops, alast>>
  /\ UNCHANGED othersAd

\* deleteAdvertisement: await advertisement.save()
DeleteAdvertisementSave(r) ==
  LET req == areq[r] IN
  /\ req.pc = "save"
  /\ ads' = [ads EXCEPT ![req.id] =
       SaveField(SaveField(@, req.doc, "isActive"), req.doc, "status")]
  /\ areq' = [areq EXCEPT ![r].pc = "respond", ![r].status = 200]
  /\ UNCHANGED <<adCache, aops, alast>>
  /\ UNCHANGED othersAd

\* the cache call between the last await of an advertisement handler and
\* its response: the feed stores the batch it read, deleteAdvertisement
\* does adCache.flushAll()
AdCacheAfter(req) ==
  IF req.handler = "getAdvertisementsFeed" /\ ~req.fromCache
    THEN CacheSet(adCache, FeedKey, req.result, AdCacheTTL)
  ELSE IF req.handler = "deleteAdvertisement" /\ req.status = 200
    THEN Flushed(adCache)
    ELSE adCache

\* the code after the last await of an advertisement handler, then
\* res.status(...).json(...)
AdRespond(r) ==
  LET req == areq[r] IN
  /\ req.pc = "respond"
  /\ adCache' = AdCacheAfter(req)
  /\ alast' = [handler |-> req.handler, id |-> req.id, status |-> req.status,
               result |-> req.result, fromCache |-> req.fromCache,
               at |-> now, pre |-> req.pre, post |-> ads]
  /\ areq' = [areq EXCEPT ![r] = IdleAd]
  /\ UNCHANGED <<ads, aops>>
  /\ UNCHANGED othersAd

getAdvertisementsFeed(r) ==
  \/ GetAdvertisementsFeedStart(r)
  \/ GetAdvertisementsFeedFind(r)
  \/ GetAdvertisementsFeedRecord(r)

deleteAdvertisement(r) ==
  \/ \E a \in AdIds \cup {MissingAd} : DeleteAdvertisementStart(r, a)
  \/ DeleteAdvertisementFind(r)
  \/ DeleteAdvertisementSave(r)

\* ---------------------------------------------------------- specifications
\* the store right after the accounts have registered
InitFollowState ==
  /\ users = Accounts
  /\ freq = [r \in Slots |-> IdleFollow]
  /\ fops = 0
  /\ fprev = NoResponse
  /\ flast = NoResponse

\* u1 has published post p1; nobody has commented yet
FreshPosts == [p \in PostIds |-> NewPost("u1")]
NoComments == [c \in {} |-> NewComment(MissingId, NoUser, NoComment)]

\* the same post after createComment(1 by u1) and createComment(2 by u2,
\* a reply to 1)
CommentedPosts == [p \in PostIds |-> [NewPost("u1") EXCEPT !.commentsCount = 2]]
TwoComments ==
  [c \in {1, 2} |->
     IF c = 1 THEN [NewComment("p1", "u1", NoComment) EXCEPT !.repliesCount = 1]
              ELSE NewComment("p1", "u2", 1)]

InitContentState(ps, cs) ==
  /\ posts = ps
  /\ comments = cs
  /\ creq = [r \in Slots |-> IdleContent]
  /\ cops = 0
  /\ cprev = NoContentResponse
  /\ clast = NoContentResponse
  /\ toggled = [p \in PostIds |-> [u \in Users |-> FALSE]]

NoStories == [s \in {} |-> NewStory(NoUser, 0)]

InitStoryState ==
  /\ stories = NoStories
  /\ now = 0
  /\ storyCache = EmptyCache
  /\ sreq = [r \in Slots |-> IdleStory]
  /\ sops = 0
  /\ ticks = 0
  /\ slast = NoStoryResponse
  /\ seen = [s \in StoryIds |-> [u \in Users |-> FALSE]]

InitListingState ==
  /\ lreq = [r \in Slots |-> IdleListing]
  /\ lops = 0
  /\ llast = NoListingResponse

InitPostCacheState ==
  /\ postCache = EmptyCache
  /\ greq = [r \in Slots |-> IdleGetPost]
  /\ gops = 0
  /\ glast = NoGetPostResponse

InitUserCacheState ==
  /\ userCache = EmptyCache
  /\ ureq = [r \in Slots |-> IdleUserRead]
  /\ uops = 0
  /\ ulast = NoUserReadResponse

\* u1 offers service s1
FreshServices == [s \in ServiceIds |-> NewService("u1")]

InitServiceState ==
  /\ services = FreshServices
  /\ serviceCache = EmptyCache
  /\ vreq = [r \in Slots |-> IdleService]
  /\ vops = 0
  /\ vlast = NoServiceResponse

\* advertisement a1 is active and scheduled from now until a third of the
\* feed cache's lifetime from now
FreshAds == [a \in AdIds |-> NewAd(0, AdCacheTTL \div 3)]

InitAdState ==
  /\ ads = FreshAds
  /\ adCache = EmptyCache
  /\ areq = [r \in Slots |-> IdleAd]
  /\ aops = 0
  /\ alast = NoAdResponse

\* the parts of the state outside follows, posts, comments and stories
InitRest ==
  /\ InitListingState
  /\ InitPostCacheState
  /\ InitUserCacheState
  /\ InitServiceState
  /\ InitAdState

InitFollow ==
  /\ InitFollowState
  /\ InitContentState(FreshPosts, NoComments)
  /\ InitStoryState
  /\ InitRest

\* toggleFollow requests interleaved at their awaits
NextFollow == \E r \in Slots : toggleFollow(r, FALSE)
SpecFollow == InitFollow /\ [][NextFollow]_vars

\* the same, with the requests in flight at any time coming from
\* different accounts
NextFollowDistinct ==
  \E r \in Slots :
    \/ \E a \in Users \ {freq[q].actor : q \in Slots},
          b \in Users \cup {GhostProfile} : FollowStart(r, a, b, FALSE)
    \/ FollowFindTarget(r)
    \/ FollowFindSelf(r)
    \/ FollowSaveSelf(r)
    \/ FollowFindOther(r)
    \/ FollowSaveOther(r)
    \/ FollowRespond(r, FALSE)
SpecFollowDistinct == InitFollow /\ [][NextFollowDistinct]_vars

\* toggleFollow requests one at a time
NextFollowSeq == \E r \in SeqSlots : toggleFollow(r, TRUE)
SpecFollowSeq == InitFollow /\ [][NextFollowSeq]_vars

\* toggleFollow requests one at a time, with the profileId of the route
\* spelled in lowercase or in capitals
NextFollowSpelled ==
  \E r \in SeqSlots :
    \/ \E a \in Users, b \in ProfileParams : FollowStart(r, a, b, TRUE)
    \/ FollowFindTarget(r)
    \/ FollowFindSelf(r)
    \/ FollowSaveSelf(r)
    \/ FollowFindOther(r)
    \/ FollowSaveOther(r)
    \/ FollowRespond(r, TRUE)
SpecFollowSpelled == InitFollow /\ [][NextFollowSpelled]_vars

InitLike ==
  /\ InitFollowState
  /\ InitContentState(CommentedPosts, TwoComments)
  /\ InitStoryState
  /\ InitRest

\* toggleLike and toggleCommentLike requests interleaved at their awaits
NextLike ==
  \E r \in Slots :
    \/ toggleLike(r, FALSE)
    \/ toggleCommentLike(r, FALSE)
    \/ commentSaveHook(r)
    \/ ContentRespond(r, FALSE)
SpecLike == InitLike /\ [][NextLike]_vars

\* the same, with the requests in flight at any time coming from
\* different accounts
NextLikeDistinct ==
  \E r \in Slots :
    \/ \E u \in Users \ {creq[q].actor : q \in Slots} :
         \/ \E p \in PostIds \cup {MissingId} :
              ContentStart(r, "toggleLike", u, p, NoComment, FALSE)
         \/ \E c \in CommentIds :
              ContentStart(r, "toggleCommentLike", u, c, NoComment, FALSE)
    \/ ToggleLikeFind(r)
    \/ ToggleLikeSave(r)
    \/ ToggleCommentLikeFind(r)
    \/ ToggleCommentLikeSave(r)
    \/ commentSaveHook(r)
    \/ ContentRespond(r, FALSE)
SpecLikeDistinct == InitLike /\ [][NextLikeDistinct]_vars

\* toggleLike and toggleCommentLike requests one at a time
NextLikeSeq ==
  \E r \in SeqSlots :
    \/ toggleLike(r, TRUE)
    \/ toggleCommentLike(r, TRUE)
    \/ commentSaveHook(r)
    \/ ContentRespond(r, TRUE)
SpecLikeSeq == InitLike /\ [][NextLikeSeq]_vars

InitComment ==
  /\ InitFollowState
  /\ InitContentState(FreshPosts, NoComments)
  /\ InitStoryState
  /\ InitRest

\* comment requests one at a time
NextComment ==
  \E r \in SeqSlots :
    \/ createComment(r, TRUE)
    \/ updateComment(r, TRUE)
    \/ toggleCommentLike(r, TRUE)
    \/ deleteComment(r, TRUE)
    \/ commentSaveHook(r)
    \/ ContentRespond(r, TRUE)
SpecComment == InitComment /\ [][NextComment]_vars

\* deleteComment requests one at a time, next to comment listings one at a
\* time
NextListing ==
  \E r \in SeqSlots :
    \/ deleteComment(r, FALSE)
    \/ commentSaveHook(r)
    \/ ContentRespond(r, FALSE)
    \/ getPostComments(r)
    \/ getCommentReplies(r)
    \/ ListingRespond(r)
SpecListing == InitLike /\ [][NextListing]_vars

\* the accounts that like and the callers that read in the post cache runs
\* (NoUser: a caller without a token)
Likers == {"u2", "u3"}
Readers == {NoUser, "u2"}

\* toggleLike requests one at a time, next to getPost requests one at a time
NextPostCache ==
  \E r \in SeqSlots :
    \/ \E u \in Likers, p \in PostIds \cup {MissingId} :
         ContentStart(r, "toggleLike", u, p, NoComment, FALSE)
    \/ ToggleLikeFind(r)
    \/ ToggleLikeSave(r)
    \/ ContentRespond(r, FALSE)
    \/ \E u \in Readers, p \in PostIds \cup {MissingId} :
         GetPostStart(r, u, p)
    \/ GetPostFind(r)
    \/ GetPostPopulate(r)
    \/ GetPostLiked(r)
    \/ GetPostRespond(r)
SpecPostCache == InitFollow /\ [][NextPostCache]_vars

\* toggleLike requests one at a time, next to getPost requests of a caller
\* without a token one at a time, fewer than MaxOps requests in all
NextLikeCache ==
  \E r \in SeqSlots :
    \/ /\ cops + gops < MaxOps
       /\ \E u \in Likers, p \in PostIds \cup {MissingId} :
            ContentStart(r, "toggleLike", u, p, NoComment, TRUE)
    \/ ToggleLikeFind(r)
    \/ ToggleLikeSave(r)
    \/ ContentRespond(r, TRUE)
    \/ /\ cops + gops < MaxOps
       /\ \E p \in PostIds : GetPostStart(r, NoUser, p)
    \/ GetPostFind(r)
    \/ GetPostPopulate(r)
    \/ GetPostRespond(r)
SpecLikeCache == InitFollow /\ [][NextLikeCache]_vars

\* getPost requests one at a time, whose postCache.set may throw
NextCacheFailure ==
  \E r \in SeqSlots :
    \/ getPost(r)
    \/ GetPostSetThrows(r)
SpecCacheFailure == InitFollow /\ [][NextCacheFailure]_vars

UserReadsQuiescent == \A r \in Slots : ureq[r].pc = "idle"

\* the accounts that follow and the profiles sought in the user cache runs
Followers == {"u1", "u2"}
Profiles == {"u2", GhostProfile}

\* toggleFollow requests and profile reads, one request at a time
NextUserCache ==
  \E r \in SeqSlots :
    \/ /\ UserReadsQuiescent
       /\ \E a \in Followers, b \in Profiles : FollowStart(r, a, b, TRUE)
    \/ FollowFindTarget(r)
    \/ FollowFindSelf(r)
    \/ FollowSaveSelf(r)
    \/ FollowFindOther(r)
    \/ FollowSaveOther(r)
    \/ FollowRespond(r, TRUE)
    \/ /\ freq[r].pc = "idle"
       /\ \E u \in Followers : GetCurrentUserProfileStart(r, u)
    \/ ProtectFind(r)
    \/ /\ freq[r].pc = "idle"
       /\ \E p \in Profiles : GetUserProfileStart(r, NoUser, p)
    \/ GetUserProfileFind(r)
    \/ UserReadRespond(r)
SpecUserCache == InitFollow /\ [][NextUserCache]_vars

\* addServiceReview requests interleaved at their awaits
NextReview ==
  \E r \in Slots :
    \/ addServiceReview(r, FALSE)
    \/ ServiceRespond(r, FALSE)
SpecReview == InitFollow /\ [][NextReview]_vars

\* service requests one at a time
NextServiceSeq ==
  \E r \in SeqSlots :
    \/ addServiceReview(r, TRUE)
    \/ updateService(r, TRUE)
    \/ deleteService(r, TRUE)
    \/ ServiceRespond(r, TRUE)
SpecServiceSeq == InitFollow /\ [][NextServiceSeq]_vars

\* getService: serviceCache.set(cacheKey, service, 3600)
ServiceCacheTTL == 3600

\* the store once u1 has also published a story and the two comments of
\* TwoComments exist, with the caches as getPost(p1), getTrendingPosts,
\* getStoriesFeed by u2, getService(s1) and an authenticated request of u2
\* leave them
InitSoftDelete ==
  /\ InitFollowState
  /\ InitContentState(CommentedPosts, TwoComments)
  /\ stories = [s \in StoryIds |-> NewStory("u1", 0)]
  /\ now = 0
  /\ storyCache = CacheSet(EmptyCache, "u2", {}, FeedCacheTTL)
  /\ sreq = [r \in Slots |-> IdleStory]
  /\ sops = 0
  /\ ticks = 0
  /\ slast = NoStoryResponse
  /\ seen = [s \in StoryIds |-> [u \in Users |-> FALSE]]
  /\ InitListingState
  /\ postCache = CacheSet(CacheSet(EmptyCache, "p1",
                                   PostView(CommentedPosts["p1"]),
                                   PostCacheTTL),
                          TrendingKey, <<PostView(CommentedPosts["p1"])>>,
                          TrendingCacheTTL)
  /\ greq = [r \in Slots |-> IdleGetPost]
  /\ gops = 0
  /\ glast = NoGetPostResponse
  /\ userCache = CacheSet(EmptyCache, <<"user", "u2">>, Accounts["u2"],
                          UserCacheStdTTL)
  /\ ureq = [r \in Slots |-> IdleUserRead]
  /\ uops = 0
  /\ ulast = NoUserReadResponse
  /\ services = FreshServices
  /\ serviceCache = CacheSet(EmptyCache, "s1", FreshServices["s1"],
                             ServiceCacheTTL)
  /\ vreq = [r \in Slots |-> IdleService]
  /\ vops = 0
  /\ vlast = NoServiceResponse
  /\ InitAdState

\* no post, comment, story or service request is in flight, and fewer than
\* MaxOps have been started
MayStartDelete ==
  /\ \A r \in Slots :
       creq[r].pc = "idle" /\ sreq[r].pc = "idle" /\ vreq[r].pc = "idle"
  /\ cops + sops + vops < MaxOps

\* deletePost, deleteComment, deleteStory and deleteService requests, one at
\* a time
NextSoftDelete ==
  \E r \in SeqSlots :
    \/ /\ MayStartDelete
       /\ \E u \in Users, p \in PostIds \cup {MissingId} :
            ContentStart(r, "deletePost", u, p, NoComment, FALSE)
    \/ DeletePostFind(r)
    \/ DeletePostSave(r)
    \/ DeletePostCount(r)
    \/ /\ MayStartDelete
       /\ \E u \in Users, c \in CommentIds :
            ContentStart(r, "deleteComment", u, c, NoComment, FALSE)
    \/ DeleteCommentFind(r)
    \/ DeleteCommentSave(r)
    \/ commentSaveHook(r)
    \/ ContentRespond(r, FALSE)
    \/ /\ MayStartDelete
       /\ \E u \in Users, s \in StoryIds :
            StoryStart(r, "deleteStory", u, s, NoUser)
    \/ DeleteStoryFind(r)
    \/ DeleteStorySave(r)
    \/ StoryRespond(r)
    \/ /\ MayStartDelete
       /\ \E u \in Users, s \in ServiceIds \cup {MissingService} :
            ServiceStart(r, "deleteService", u, s, <<>>, FALSE)
    \/ DeleteServiceFind(r)
    \/ DeleteServiceSave(r)
    \/ ServiceRespond(r, FALSE)
SpecSoftDelete == InitSoftDelete /\ [][NextSoftDelete]_vars

\* no follow, post, comment, story or service request is in flight, and
\* fewer than MaxMutations have been started
MayMutate ==
  /\ \A r \in Slots :
       /\ freq[r].pc = "idle"
       /\ creq[r].pc = "idle"
       /\ sreq[r].pc = "idle"
       /\ vreq[r].pc = "idle"
  /\ fops + cops + sops + vops < MaxMutations

\* the requests that write and then invalidate a cache, one at a time, from
\* a store whose caches hold entries
NextInvalidation ==
  \E r \in SeqSlots :
    \/ /\ MayMutate
       /\ \E a \in Followers, b \in Users \cup {GhostProfile} :
            FollowStart(r, a, b, FALSE)
    \/ FollowFindTarget(r)
    \/ FollowFindSelf(r)
    \/ FollowSaveSelf(r)
    \/ FollowFindOther(r)
    \/ FollowSaveOther(r)
    \/ FollowRespond(r, FALSE)
    \/ /\ MayMutate
       /\ \E u \in Followers, p \in PostIds \cup {MissingId} :
            \/ ContentStart(r, "toggleLike", u, p, NoComment, FALSE)
            \/ ContentStart(r, "deletePost", u, p, NoComment, FALSE)
            \/ ContentStart(r, "sharePost", u, p, NoComment, FALSE)
            \/ \E c \in CommentIds \cup {NoComment} :
                 ContentStart(r, "createComment", u, p, c, FALSE)
    \/ /\ MayMutate
       /\ \E u \in Followers, c \in CommentIds :
            \/ ContentStart(r, "toggleCommentLike", u, c, NoComment, FALSE)
            \/ ContentStart(r, "deleteComment", u, c, NoComment, FALSE)
    \/ /\ MayMutate
       /\ \E u \in Followers : CreatePostStart(r, u, FALSE)
    \/ ToggleLikeFind(r)
    \/ ToggleLikeSave(r)
    \/ ToggleCommentLikeFind(r)
    \/ ToggleCommentLikeSave(r)
    \/ CreateCommentFindPost(r)
    \/ CreateCommentFindParent(r)
    \/ CreateCommentSave(r)
    \/ DeleteCommentFind(r)
    \/ DeleteCommentSave(r)
    \/ commentSaveHook(r)
    \/ CreatePostSave(r)
    \/ CreatePostCount(r)
    \/ CreatePostPopulate(r)
    \/ DeletePostFind(r)
    \/ DeletePostSave(r)
    \/ DeletePostCount(r)
    \/ SharePostFind(r)
    \/ SharePostSave(r)
    \/ ContentRespond(r, FALSE)
    \/ /\ MayMutate
       /\ \E u \in Followers, s \in StoryIds :
            \/ StoryStart(r, "viewStory", u, s, NoUser)
            \/ StoryStart(r, "deleteStory", u, s, NoUser)
    \/ ViewStoryFind(r)
    \/ ViewStorySave(r)
    \/ DeleteStoryFind(r)
    \/ DeleteStorySave(r)
    \/ StoryRespond(r)
    \/ /\ MayMutate
       /\ \E u \in Followers, s \in ServiceIds \cup {MissingService} :
            \/ ServiceStart(r, "deleteService", u, s, <<>>, FALSE)
            \/ \E n \in Ratings : AddServiceReviewStart(r, u, s, n, FALSE)
    \/ AddServiceReviewFind(r)
    \/ AddServiceReviewSave(r)
    \/ DeleteServiceFind(r)
    \/ DeleteServiceSave(r)
    \/ ServiceRespond(r, FALSE)
SpecInvalidation == InitSoftDelete /\ [][NextInvalidation]_vars

\* toggleLike and viewStory requests among getPost and getStoriesFeed
\* requests, two of each kind at a time, fewer than MaxMutations in all
NextFlush ==
  \E r \in Slots :
    \/ /\ cops + gops + sops < MaxMutations
       /\ \E u \in Likers, p \in PostIds \cup {MissingId} :
            ContentStart(r, "toggleLike", u, p, NoComment, FALSE)
    \/ ToggleLikeFind(r)
    \/ ToggleLikeSave(r)
    \/ ContentRespond(r, FALSE)
    \/ /\ cops + gops + sops < MaxMutations
       /\ \E p \in PostIds : GetPostStart(r, NoUser, p)
    \/ GetPostFind(r)
    \/ GetPostPopulate(r)
    \/ GetPostRespond(r)
    \/ /\ cops + gops + sops < MaxMutations
       /\ \E u \in Followers, s \in StoryIds :
            StoryStart(r, "viewStory", u, s, NoUser)
    \/ ViewStoryFind(r)
    \/ ViewStorySave(r)
    \/ /\ cops + gops + sops < MaxMutations
       /\ \E u \in Likers : GetStoriesFeedStart(r, u)
    \/ GetStoriesFeedFindUser(r)
    \/ GetStoriesFeedAggregate(r)
    \/ StoryRespond(r)
SpecFlush == InitSoftDelete /\ [][NextFlush]_vars

\* createPost requests with any commentsEnabled and createComment requests
\* on the posts created so far, one at a time, fewer than MaxOps in all
NextThread ==
  \E r \in SeqSlots :
    \/ \E u \in Followers, flag \in Flags :
         CreatePostWith(r, u, Absent, flag, FALSE)
    \/ CreatePostSave(r)
    \/ CreatePostCount(r)
    \/ CreatePostPopulate(r)
    \/ \E u \in Followers, p \in DOMAIN posts,
          c \in CommentIds \cup {NoComment} :
         ContentStart(r, "createComment", u, p, c, FALSE)
    \/ CreateCommentFindPost(r)
    \/ CreateCommentFindParent(r)
    \/ CreateCommentSave(r)
    \/ commentSaveHook(r)
    \/ ContentRespond(r, FALSE)
SpecThread == InitFollow /\ [][NextThread]_vars

\* createPost and getHomeFeed requests, one at a time, fewer than MaxOps
\* in all
NextHomeFeed ==
  \E r \in SeqSlots :
    \/ /\ \A q \in Slots : creq[q].pc = "idle" /\ greq[q].pc = "idle"
       /\ cops + gops < MaxOps
       /\ \E u \in Followers :
            \/ CreatePostStart(r, u, FALSE)
            \/ GetHomeFeedStart(r, u)
    \/ CreatePostSave(r)
    \/ CreatePostCount(r)
    \/ CreatePostPopulate(r)
    \/ ContentRespond(r, FALSE)
    \/ getHomeFeed(r)
SpecHomeFeed == InitFollow /\ [][NextHomeFeed]_vars

\* createPost requests with any visibility and getPost requests of any
\* caller for the posts created so far, one at a time, fewer than MaxOps in
\* all
NextPrivate ==
  \E r \in SeqSlots :
    \/ /\ cops + gops < MaxOps
       /\ \E u \in Followers, vis \in Visibilities :
            CreatePostWith(r, u, vis, Absent, FALSE)
    \/ CreatePostSave(r)
    \/ CreatePostCount(r)
    \/ CreatePostPopulate(r)
    \/ ContentRespond(r, FALSE)
    \/ /\ cops + gops < MaxOps
       /\ \E u \in Users \cup {NoUser}, p \in DOMAIN posts :
            GetPostStart(r, u, p)
    \/ GetPostFind(r)
    \/ GetPostPopulate(r)
    \/ GetPostLiked(r)
    \/ GetPostRespond(r)
SpecPrivate == InitFollow /\ [][NextPrivate]_vars

\* viewStory and deleteStory requests one at a time and the clock, from a
\* store with a story and a cached story feed
NextViewRejected ==
  \/ \E r \in SeqSlots :
       \/ viewStory(r)
       \/ deleteStory(r)
       \/ StoryRespond(r)
  \/ \E d \in ClockSteps : Tick(d)
SpecViewRejected == InitSoftDelete /\ [][NextViewRejected]_vars

\* createPost and deletePost requests one at a time; deletePost names any
\* post created so far or an id that was never given out
NextPosts ==
  \E r \in SeqSlots :
    \/ createPost(r, TRUE)
    \/ \E u \in Users, p \in DOMAIN posts \cup {MissingId} :
         ContentStart(r, "deletePost", u, p, NoComment, TRUE)
    \/ DeletePostFind(r)
    \/ DeletePostSave(r)
    \/ DeletePostCount(r)
    \/ ContentRespond(r, TRUE)
SpecPosts == InitFollow /\ [][NextPosts]_vars

\* getAdvertisementsFeed and deleteAdvertisement requests one at a time,
\* and the clock
NextAds ==
  \/ \E r \in SeqSlots :
       \/ getAdvertisementsFeed(r)
       \/ deleteAdvertisement(r)
       \/ AdRespond(r)
  \/ /\ \A r \in Slots : areq[r].pc = "idle"
     /\ \E d \in ClockSteps : Tick(d)
SpecAds == InitFollow /\ [][NextAds]_vars

\* deleteService and getMyServices requests one at a time
NextMyServices ==
  \E r \in SeqSlots :
    \/ deleteService(r, TRUE)
    \/ getMyServices(r, TRUE)
    \/ ServiceRespond(r, TRUE)
SpecMyServices == InitFollow /\ [][NextMyServices]_vars

\* the accounts after toggleFollow(u2, u1)
FollowedUsers ==
  [u \in Users |->
     IF u = "u1" THEN [Accounts[u] EXCEPT !.followers = <<"u2">>,
                                          !.followersCount = 1, !.v = 1]
     ELSE IF u = "u2" THEN [Accounts[u] EXCEPT !.following = <<"u1">>,
                                               !.followingCount = 1, !.v = 1]
     ELSE Accounts[u]]

InitStory ==
  /\ users = FollowedUsers
  /\ freq = [r \in Slots |-> IdleFollow]
  /\ fops = 0
  /\ fprev = NoResponse
  /\ flast = NoResponse
  /\ InitContentState(FreshPosts, NoComments)
  /\ InitStoryState
  /\ InitRest

\* createStory, viewStory and deleteStory requests one at a time, and the
\* clock
NextStoryView ==
  \/ \E r \in SeqSlots :
       \/ createStory(r)
       \/ viewStory(r)
       \/ deleteStory(r)
       \/ StoryRespond(r)
  \/ \E d \in ClockSteps : Tick(d)
SpecStoryView == InitStory /\ [][NextStoryView]_vars

\* createStory, deleteStory and the three story listings one at a time, and
\* the clock
NextStoryList ==
  \/ \E r \in SeqSlots :
       \/ createStory(r)
       \/ deleteStory(r)
       \/ getStoriesFeed(r)
       \/ getMyStories(r)
       \/ getUserStories(r)
       \/ StoryRespond(r)
  \/ \E d \in ClockSteps : Tick(d)
SpecStoryList == InitStory /\ [][NextStoryList]_vars

\* getStoriesFeed requests one at a time, and the clock
NextFeedCache ==
  \/ \E r \in SeqSlots :
       \/ getStoriesFeed(r)
       \/ StoryRespond(r)
  \/ \E d \in ClockSteps : Tick(d)
SpecFeedCache == InitStory /\ [][NextFeedCache]_vars

\* updateProfile requests of accounts that follow one another, one at a
\* time
NextProfile == \E r \in SeqSlots : updateProfile(r)
SpecProfile == InitStory /\ [][NextProfile]_vars

\* ------------------------------------------------------------ properties
FollowQuiescent == \A r \in Slots : freq[r].pc = "idle"
ContentQuiescent == \A r \in Slots : creq[r].pc = "idle"

\* C1: whenever no toggleFollow request is in flight, every account's
\* followersCount equals the length of its followers list and its
\* followingCount equals the length of its following list.
C1_CountersMatchLists ==
  FollowQuiescent =>
    \A u \in Users :
      /\ users[u].followersCount = Len(users[u].followers)
      /\ users[u].followingCount = Len(users[u].following)

\* C2: whenever no request is in flight, every post and every comment has
\* likesCount equal to the length of its likes list.
C2_LikesCountMatchesLikes ==
  ContentQuiescent =>
    /\ \A p \in DOMAIN posts : posts[p].likesCount = Len(posts[p].likes)
    /\ \A c \in DOMAIN comments :
         comments[c].likesCount = Len(comments[c].likes)

\* C3: two toggleLike requests from two distinct accounts on the same fresh
\* post, and no other request: once both have completed, likesCount is 2
\* and both accounts are in likes, whatever the interleaving.
C3_ConcurrentLikesBothLand ==
  \A p \in PostIds : \A u \in Users : \A w \in Users \ {u} :
    (ContentQuiescent /\ cops = 2 /\ toggled[p][u] /\ toggled[p][w]) =>
      /\ posts[p].likesCount = 2
      /\ Includes(posts[p].likes, u)
      /\ Includes(posts[p].likes, w)

\* the last two responses are toggleFollow(a, b) twice, a # b, and a did
\* not follow b before the first
FollowPair ==
  /\ fprev.actor # NoUser
  /\ fprev.actor = flast.actor
  /\ fprev.target = flast.target
  /\ fprev.target \in Users \ {fprev.actor}
  /\ ~Includes(fprev.pre[1], fprev.target)

\* C4: toggleFollow(A,B) twice in a row, A not following B before: the first
\* adds B to A.following and A to B.followers and raises both counters by
\* one, the second restores the four fields to their values before the pair.
C4_FollowRoundTrip ==
  FollowPair =>
    /\ fprev.status = 200 /\ fprev.op = "follow"
    /\ flast.status = 200 /\ flast.op = "unfollow"
    /\ Includes(fprev.post[1], fprev.target)
    /\ fprev.post[2] = fprev.pre[2] + 1
    /\ Includes(fprev.post[3], fprev.actor)
    /\ fprev.post[4] = fprev.pre[4] + 1
    /\ flast.pre = fprev.post
    /\ flast.post = fprev.pre

\* a completed round trip on a pair whose lists were not empty before
C4_Witness ==
  /\ FollowPair
  /\ flast.op = "unfollow"
  /\ Len(fprev.pre[1]) > 0
  /\ Len(fprev.pre[3]) > 0
  /\ flast.post = fprev.pre

\* the last two responses are toggleLike(p, u) twice on an active post that
\* u had not liked before the first
LikePair ==
  /\ cprev.handler = "toggleLike"
  /\ clast.handler = "toggleLike"
  /\ cprev.actor = clast.actor
  /\ cprev.id = clast.id
  /\ cprev.id \in DOMAIN cprev.pre.posts
  /\ cprev.pre.posts[cprev.id].isActive
  /\ ~isLikedBy(cprev.pre.posts[cprev.id], cprev.actor)

\* C5: toggleLike(P,U) twice in a row, U not having liked P: the responses
\* are liked then unliked, and likes and likesCount end as they began.
C5_LikeTogglePair ==
  LikePair =>
    /\ cprev.status = 200 /\ cprev.isLiked
    /\ clast.status = 200 /\ ~clast.isLiked
    /\ clast.post.posts[clast.id].likes = cprev.pre.posts[cprev.id].likes
    /\ clast.post.posts[clast.id].likesCount =
         cprev.pre.posts[cprev.id].likesCount

\* a completed pair on a post that already had a like by someone else
C5_Witness ==
  /\ LikePair
  /\ clast.status = 200
  /\ Len(cprev.pre.posts[cprev.id].likes) > 0
  /\ Len(cprev.post.posts[cprev.id].likes) > 1
  /\ clast.post.posts[clast.id].likes = cprev.pre.posts[cprev.id].likes

OddTogglers(p) == {u \in Users : toggled[p][u]}

\* C6: with toggleLike calls issued one at a time on a post that started
\* with no likes, likesCount is the number of accounts that toggled an odd
\* number of times, and the likesCount of a response is the stored value.
C6_LikesCountIsOddTogglers ==
  ContentQuiescent =>
    /\ \A p \in PostIds : posts[p].likesCount = Cardinality(OddTogglers(p))
    /\ (clast.handler = "toggleLike" /\ clast.status = 200) =>
         clast.likesCount = posts[clast.id].likesCount

\* three accounts liked, then one of them toggled again: likesCount is 2
C6_Witness ==
  /\ ContentQuiescent
  /\ cops = 4
  /\ clast.handler = "toggleLike" /\ clast.op = "unlike"
  /\ clast.pre.posts[clast.id].likesCount = 3
  /\ posts[clast.id].likesCount = 2
  /\ Cardinality(OddTogglers(clast.id)) = 2

StoryQuiescent == \A r \in Slots : sreq[r].pc = "idle"
Viewers(s) == {u \in Users : seen[s][u]}

\* C7: with viewStory calls issued one at a time, an account is in a
\* story's views exactly once if one of its calls has succeeded and not at
\* all otherwise, viewsCount is the number of such accounts, and a call
\* reports a new view exactly when it is the account's first successful
\* call on the story.
C7_ViewCountedOnce ==
  StoryQuiescent =>
    /\ \A s \in DOMAIN stories :
         /\ \A u \in Users :
              Occurrences(stories[s].views, u) = IF seen[s][u] THEN 1 ELSE 0
         /\ stories[s].viewsCount = Cardinality(Viewers(s))
    /\ (slast.handler = "viewStory" /\ slast.status = 200) =>
         /\ slast.isNewView = slast.first
         /\ slast.viewsCount = stories[slast.id].viewsCount

\* a repeated viewStory call answered 'already viewed' on a story that two
\* accounts have viewed
C7_Witness ==
  /\ StoryQuiescent
  /\ slast.handler = "viewStory"
  /\ slast.status = 200
  /\ ~slast.isNewView
  /\ stories[slast.id].viewsCount = 2
  /\ Occurrences(stories[slast.id].views, slast.actor) = 1

StoryListings == {"getStoriesFeed", "getMyStories", "getUserStories"}

\* C8: a story listing response produced at time t contains no story with
\* expiresAt <= t, also when it is served from the story cache.
C8_NoExpiredStoryListed ==
  (slast.handler \in StoryListings /\ slast.status = 200) =>
    \A s \in slast.stories : stories[s].expiresAt > slast.at

\* the active comments whose parentComment is c
ActiveReplies(c) ==
  {d \in DOMAIN comments :
     comments[d].isActive /\ comments[d].parentComment = c}

\* C9: a completed createComment raises the post's commentsCount by one and,
\* for a reply, the parent's repliesCount by one; a completed deleteComment
\* of an active comment lowers the post's commentsCount by one and, for a
\* reply, the parent's repliesCount by one.
C9_CommentCountersFollowCreateAndDelete ==
  /\ (clast.handler = "createComment" /\ clast.status = 201) =>
       /\ clast.post.posts[clast.id].commentsCount =
            clast.pre.posts[clast.id].commentsCount + 1
       /\ clast.parent # NoComment =>
            clast.post.comments[clast.parent].repliesCount =
              clast.pre.comments[clast.parent].repliesCount + 1
  /\ (/\ clast.handler = "deleteComment"
      /\ clast.status = 200
      /\ clast.pre.comments[clast.id].isActive) =>
       LET c == clast.pre.comments[clast.id] IN
       /\ clast.post.posts[c.post].commentsCount =
            clast.pre.posts[c.post].commentsCount - 1
       /\ c.parentComment # NoComment =>
            clast.post.comments[c.parentComment].repliesCount =
              clast.pre.comments[c.parentComment].repliesCount - 1

\* C10: whenever no request is in flight, every comment's repliesCount is
\* the number of active comments whose parentComment is that comment.
C10_RepliesCountMatchesActiveReplies ==
  ContentQuiescent =>
    \A c \in DOMAIN comments :
      comments[c].repliesCount = Cardinality(ActiveReplies(c))

\* C11: a comment listing (the top-level list of getPostComments, the
\* replies it embeds, the list of getCommentReplies) contains no comment
\* whose deleteComment had completed when the listing request started.
C11_DeletedCommentNeverListed ==
  llast.status = 200 =>
    (llast.top \cup llast.replies) \cap llast.gone = {}

\* C12: a getPost that starts when every toggleLike on the post has
\* completed, and during which none starts, returns the stored likesCount,
\* also when it is served from the post cache.
C12_GetPostSeesCompletedLikes ==
  (glast.status = 200 /\ glast.settled) => glast.likesCount = glast.stored

\* the user cache keys of an account
UserCacheKeys(u) == {<<"user", u>>, <<"profile", u>>}

\* C13: once a toggleFollow(A,B) has completed, with requests issued one at
\* a time, every user cache entry of A and of B (user:A, profile:A, user:B,
\* profile:B) holds the stored followers, following and counters.
C13_NoStaleUserCacheAfterFollow ==
  (FollowQuiescent /\ UserReadsQuiescent /\ flast.status = 200) =>
    \A u \in {flast.actor, flast.target} : \A k \in UserCacheKeys(u) :
      CacheHit(userCache, k) => userCache[k].v = users[u]

\* C14: a toggleFollow request of an account whose target is the account
\* itself is answered 400 and leaves the account's following, followers and
\* both counters unchanged, and no account is ever in its own following or
\* followers list.
C14_SelfFollowRejected ==
  /\ \A u \in Users :
       /\ ~Includes(users[u].following, u)
       /\ ~Includes(users[u].followers, u)
  /\ (flast.actor # NoUser /\ ProfileOwner(flast.target) = flast.actor) =>
       /\ flast.status = 400
       /\ flast.post = flast.pre

\* the last response is to a toggleFollow(A,B) request, A # B, issued while
\* A followed B
FollowedAlready ==
  /\ flast.actor # NoUser
  /\ flast.target \in Users \ {flast.actor}
  /\ Occurrences(flast.pre[1], flast.target) > 0

\* C15: a follow request from A to B issued while A already follows B is a
\* no-op: it does not unfollow, and A.following, B.followers,
\* A.followingCount and B.followersCount are left as they were.
C15_FollowWhileFollowingIsNoOp ==
  FollowedAlready =>
    /\ flast.op # "unfollow"
    /\ flast.post = flast.pre

\* C15 as amended: with requests issued one at a time, a toggleFollow
\* request from A to B issued while A follows B unfollows: it is answered
\* 200 as unfollowed, removes B from A.following and A from B.followers
\* and lowers followingCount of A and followersCount of B by one.
C15_ToggleWhileFollowingUnfollows ==
  FollowedAlready =>
    /\ flast.status = 200
    /\ flast.op = "unfollow"
    /\ flast.post[1] = Splice(flast.pre[1], IndexOf(flast.pre[1], flast.target))
    /\ ~Includes(flast.post[1], flast.target)
    /\ flast.post[2] = flast.pre[2] - 1
    /\ flast.post[3] = Splice(flast.pre[3], IndexOf(flast.pre[3], flast.actor))
    /\ ~Includes(flast.post[3], flast.actor)
    /\ flast.post[4] = flast.pre[4] - 1

\* an unfollow by an account that followed two accounts, of an account that
\* had two followers
C15_Witness ==
  /\ FollowedAlready
  /\ flast.op = "unfollow"
  /\ flast.pre[2] = 2
  /\ flast.pre[4] = 2
  /\ flast.post[2] = 1
  /\ flast.post[4] = 1

ServiceQuiescent == \A r \in Slots : vreq[r].pc = "idle"

\* the mean of the ratings of a list of reviews is the quotient q
\* (the default 0 for no reviews)
IsMean(q, reviews) ==
  IF reviews = <<>> THEN q.num = 0
  ELSE SameQuotient(q, Quotient(TotalRating(reviews), Len(reviews)))

\* C16: whenever no service request is in flight, every service has
\* rating.count equal to the number of its reviews and rating.average equal
\* to the mean of their ratings.
C16_RatingMatchesReviews ==
  ServiceQuiescent =>
    \A s \in DOMAIN services :
      /\ services[s].count = Len(services[s].reviews)
      /\ IsMean(services[s].average, services[s].reviews)

\* C17: no service ever holds two reviews of the same account.
C17_OneReviewPerAccount ==
  \A s \in DOMAIN services : \A u \in Users :
    Cardinality({i \in 1..Len(services[s].reviews) :
                   services[s].reviews[i].user = u}) <= 1

\* the rating of every service of a collection
RatingView(col) ==
  [s \in DOMAIN col |-> <<col[s].reviews, col[s].average, col[s].count>>]

\* the last response answers an addServiceReview request that has to be
\* rejected: rating outside 1..5, service missing or soft-deleted, or a
\* review of the same account already stored
ReviewToReject ==
  /\ vlast.handler = "addServiceReview"
  /\ \/ vlast.rating \notin 1..5
     \/ vlast.id \notin DOMAIN vlast.pre
     \/ ~vlast.pre[vlast.id].isActive
     \/ \E i \in 1..Len(vlast.pre[vlast.id].reviews) :
          vlast.pre[vlast.id].reviews[i].user = vlast.actor

\* C18: with requests one at a time, an addServiceReview request that is a
\* duplicate, carries a rating outside 1..5 or names a missing or
\* soft-deleted service is answered with an error, and every
\* addServiceReview request answered with an error leaves the reviews,
\* average and count of every service unchanged.
C18_RejectedReviewChangesNothing ==
  /\ ReviewToReject => vlast.status \in {400, 404}
  /\ (vlast.handler = "addServiceReview" /\ vlast.status # 201) =>
       RatingView(vlast.post) = RatingView(vlast.pre)

\* a duplicate review is rejected on a service rated 4 and 5 (average 4.5,
\* count 2)
C18_Witness ==
  /\ ReviewToReject
  /\ vlast.rating \in 1..5
  /\ vlast.status = 400
  /\ vlast.id \in DOMAIN vlast.post
  /\ Len(vlast.post[vlast.id].reviews) = 2
  /\ vlast.post[vlast.id].count = 2
  /\ SameQuotient(vlast.post[vlast.id].average, Quotient(9, 2))

\* C20: once isActive is false on a post, comment, story or service, no
\* step makes it true again.
C20_SoftDeleteIsOneWay ==
  [][/\ \A p \in DOMAIN posts :
          ~posts[p].isActive => ~posts'[p].isActive
     /\ \A c \in DOMAIN comments \cap DOMAIN comments' :
          ~comments[c].isActive => ~comments'[c].isActive
     /\ \A t \in DOMAIN stories \cap DOMAIN stories' :
          ~stories[t].isActive => ~stories'[t].isActive
     /\ \A s \in DOMAIN services :
          ~services[s].isActive => ~services'[s].isActive]_vars

\* the documents, their counters and the caches
Store ==
  <<users, posts, comments, stories, services,
    postCache, storyCache, serviceCache, userCache>>

\* slot r is about to check the owner of an existing document that the
\* requester does not own
DeleteByNonOwner(r) ==
  \/ /\ creq[r].pc = "find"
     /\ creq[r].handler = "deletePost"
     /\ creq[r].id \in DOMAIN posts
     /\ posts[creq[r].id].author # creq[r].actor
  \/ /\ creq[r].pc = "find"
     /\ creq[r].handler = "deleteComment"
     /\ creq[r].id \in DOMAIN comments
     /\ comments[creq[r].id].author # creq[r].actor
  \/ /\ sreq[r].pc = "find"
     /\ sreq[r].handler = "deleteStory"
     /\ sreq[r].id \in DOMAIN stories
     /\ stories[sreq[r].id].author # sreq[r].actor
  \/ /\ vreq[r].pc = "find"
     /\ vreq[r].handler = "deleteService"
     /\ vreq[r].id \in DOMAIN services
     /\ services[vreq[r].id].provider # vreq[r].actor

\* the status of the delete request of slot r
DeleteStatus(cr, sr, vr) ==
  IF cr.handler \in {"deletePost", "deleteComment"} THEN cr.status
  ELSE IF sr.handler = "deleteStory" THEN sr.status
  ELSE IF vr.handler = "deleteService" THEN vr.status
  ELSE 0

C21_ReadsReturnOnlyActive ==
  (vlast.handler = "getMyServices" /\ vlast.status = 200) =>
    \A s \in vlast.result : vlast.post[s].isActive

\* C22: with requests one at a time, a deletePost request that names a post
\* that does not exist is answered 404, and one that names a soft-deleted
\* post is answered the same 404, whoever sends it.
C22_DeletedLooksAbsent ==
  clast.handler = "deletePost" =>
    /\ clast.id \notin DOMAIN clast.pre.posts => clast.status = 404
    /\ (/\ clast.id \in DOMAIN clast.pre.posts
        /\ ~clast.pre.posts[clast.id].isActive) => clast.status = 404

\* the active posts of account u
ActivePostsOf(u) ==
  {p \in DOMAIN posts : posts[p].author = u /\ posts[p].isActive}

\* C23: whenever no createPost or deletePost request is in flight, every
\* account's postsCount equals the number of its active posts.
C23_PostsCountMatchesActivePosts ==
  ContentQuiescent =>
    \A u \in Users : users[u].postsCount = Cardinality(ActivePostsOf(u))

\* C24: with requests one at a time, every getAdvertisementsFeed response
\* that serves a batch has raised metrics.impressions of each advertisement
\* of the batch by exactly 1, whether the batch came from the store or from
\* the cache.
C24_EveryServeCountsImpressions ==
  (alast.handler = "getAdvertisementsFeed" /\ alast.status = 200) =>
    \A a \in alast.result :
      alast.post[a].impressions = alast.pre[a].impressions + 1

\* C25: every advertisement of a getAdvertisementsFeed response produced at
\* time t has status active, isActive true and startDate <= t <= endDate.
C25_ServedAdsAreEligible ==
  (alast.handler = "getAdvertisementsFeed" /\ alast.status = 200) =>
    \A a \in alast.result :
      /\ alast.post[a].status = "active"
      /\ alast.post[a].isActive
      /\ alast.post[a].startDate <= alast.at
      /\ alast.at <= alast.post[a].endDate

\* the last response is a story feed read from storyCache, where it was
\* stored FeedCacheTTL seconds before the time cachedUntil
ServedFromCache == slast.handler = "getStoriesFeed" /\ slast.fromCache

C27_CacheFailureIsAMiss ==
  glast.cacheFailed => glast.status = 200 /\ glast.likesCount = glast.stored

\* C28: with toggleLike requests one at a time and getPost requests
\* interleaved, the response of toggleLike(P,U) and the stored post after it
\* are a function of the stored posts at its start alone: 404 and no change
\* for a missing or inactive post; otherwise liked with U appended and
\* likesCount raised by one if U was not in likes, unliked with U removed
\* and likesCount lowered by one if it was. The post cache does not enter.
C28_ToggleLikeIgnoresCache ==
  clast.handler = "toggleLike" =>
    IF clast.id \notin DOMAIN clast.pre.posts
         \/ ~clast.pre.posts[clast.id].isActive
      THEN clast.status = 404 /\ clast.post.posts = clast.pre.posts
      ELSE LET doc == clast.pre.posts[clast.id]
               was == Occurrences(doc.likes, clast.actor) > 0
           IN
           /\ clast.status = 200
           /\ clast.isLiked = ~was
           /\ clast.likesCount = doc.likesCount + (IF was THEN -1 ELSE 1)
           /\ clast.post.posts[clast.id].likesCount = clast.likesCount
           /\ clast.post.posts[clast.id].likes =
                IF was THEN Splice(doc.likes, IndexOf(doc.likes, clast.actor))
                       ELSE Append(doc.likes, clast.actor)

\* a toggleLike completed that started while the post cache held a
\* likesCount for the post other than the stored one
C28_Witness ==
  /\ clast.handler = "toggleLike"
  /\ clast.status = 200
  /\ clast.id \in DOMAIN clast.cached
  /\ clast.cached[clast.id].v.likesCount #
       clast.pre.posts[clast.id].likesCount

\* the documents and their counters
Documents == <<users, posts, comments, stories, services>>

\* cache c holds a key that cache d does not hold
Dropped(c, d) == \E k \in DOMAIN c : k \notin DOMAIN d

\* slot r answers its request in this step
Answers(req, r) == req[r].pc = "respond" /\ req'[r].pc = "idle"

\* C29: in toggleFollow, toggleLike, toggleCommentLike, createComment,
\* deleteComment, createPost, deletePost, sharePost, viewStory, deleteStory,
\* addServiceReview and deleteService, a step that removes an entry from a
\* cache writes no document and is the step in which the request is
\* answered, after every write of the request
C29_InvalidationFollowsWrites ==
  [][(\/ Dropped(userCache, userCache')
      \/ Dropped(postCache, postCache')
      \/ Dropped(storyCache, storyCache')
      \/ Dropped(serviceCache, serviceCache'))
     => /\ Documents' = Documents
        /\ \E r \in Slots :
             \/ Answers(freq, r)
             \/ Answers(creq, r)
             \/ Answers(sreq, r)
             \/ Answers(vreq, r)]_vars

\* a sharePost request was answered: the post is changed and its cache
\* entry is gone
C29_Witness ==
  /\ \A r \in Slots : creq[r].pc = "idle"
  /\ posts["p1"].sharesCount = 1
  /\ ~CacheHit(postCache, "p1")

\* C30: when a toggleLike request that wrote the post is answered, postCache
\* is empty, so it holds neither post:P nor a listing written before the
\* write; when a viewStory request that recorded a new view is answered,
\* storyCache is empty
C30_NothingOlderThanTheWrite ==
  [][\A r \in Slots :
       /\ (Answers(creq, r) /\ creq[r].handler = "toggleLike"
              /\ creq[r].status = 200)
            => postCache' = EmptyCache
       /\ (Answers(sreq, r) /\ sreq[r].handler = "viewStory"
              /\ sreq[r].isNewView /\ sreq[r].status = 200)
            => storyCache' = EmptyCache]_vars

\* a like and a new view are stored, their requests are answered, and the
\* entries the two caches held before are gone
C30_Witness ==
  /\ \A r \in Slots : creq[r].pc = "idle" /\ sreq[r].pc = "idle"
  /\ posts["p1"].likesCount = 1
  /\ \E s \in StoryIds : stories[s].viewsCount = 1
  /\ TrendingKey \notin DOMAIN postCache
  /\ "u2" \notin DOMAIN storyCache

\* C31: whenever no toggleFollow request is in flight, B is in A.following
\* exactly when A is in B.followers, for all accounts A and B.
C31_ListsAgree ==
  FollowQuiescent =>
    \A a \in Users, b \in Users :
      Includes(users[a].following, b) <=> Includes(users[b].followers, a)

\* C32: the parentComment of every comment is null or a comment whose own
\* parentComment is null (threads have depth at most 2).
C32_DepthAtMostTwo ==
  \A c \in DOMAIN comments :
    comments[c].parentComment # NoComment =>
      comments[comments[c].parentComment].parentComment = NoComment

\* slot r is about to load, for viewStory, a story that is soft-deleted or
\* expired
ViewOfGoneStory(r) ==
  /\ sreq[r].pc = "find"
  /\ sreq[r].handler = "viewStory"
  /\ Found(stories, sreq[r].id)
  /\ \/ ~stories[sreq[r].id].isActive
     \/ stories[sreq[r].id].expiresAt <= now

\* C33: viewStory on a soft-deleted or expired story is rejected (404 or
\* 410), and neither its rejection nor its answer changes a story's views,
\* its viewsCount or the story cache.
C33_GoneStoryIsNotViewed ==
  [][\A r \in SeqSlots :
       /\ (ViewOfGoneStory(r) /\ sreq'[r] # sreq[r])
            => /\ sreq'[r].pc = "respond"
               /\ sreq'[r].status \in {404, 410}
               /\ stories' = stories
               /\ storyCache' = storyCache
       /\ (/\ sreq[r].pc = "respond"
           /\ sreq[r].handler = "viewStory"
           /\ sreq[r].status \in {404, 410})
            => /\ sreq'[r].pc = "idle"
               /\ stories' = stories
               /\ storyCache' = storyCache]_vars

\* a viewStory request on a story that has expired is about to be answered
\* 410 while the story cache holds a feed
C33_Witness ==
  \E r \in SeqSlots :
    /\ sreq[r].pc = "respond"
    /\ sreq[r].handler = "viewStory"
    /\ sreq[r].status = 410
    /\ storyCache # EmptyCache

C35_CountersNeverNegative ==
  /\ \A u \in DOMAIN users :
       /\ users[u].postsCount >= 0
       /\ users[u].followersCount >= 0
       /\ users[u].followingCount >= 0
  /\ \A p \in DOMAIN posts :
       /\ posts[p].likesCount >= 0
       /\ posts[p].commentsCount >= 0
       /\ posts[p].sharesCount >= 0
  /\ \A c \in DOMAIN comments :
       /\ comments[c].likesCount >= 0
       /\ comments[c].repliesCount >= 0
  /\ \A s \in DOMAIN stories : stories[s].viewsCount >= 0

\* no value stands at two positions of arr
NoDuplicates(arr) ==
  \A i \in 1..Len(arr), j \in 1..Len(arr) : arr[i] = arr[j] => i = j

\* C36: no account appears more than once in a post's likes, a comment's
\* likes, a story's views or an account's following or followers list.
C36_ListsAreSets ==
  /\ \A p \in DOMAIN posts : NoDuplicates(posts[p].likes)
  /\ \A c \in DOMAIN comments : NoDuplicates(comments[c].likes)
  /\ \A s \in DOMAIN stories : NoDuplicates(stories[s].views)
  /\ \A u \in DOMAIN users :
       /\ NoDuplicates(users[u].following)
       /\ NoDuplicates(users[u].followers)

\* C37: a getHomeFeed response holds every active post of the caller whose
\* createPost request was answered before the getHomeFeed request began.
C37_FeedHoldsOwnNewPost ==
  (glast.handler = "getHomeFeed" /\ glast.status = 200)
    => glast.due \subseteq glast.feed

\* C38: the findByIdAndUpdate of an updateProfile request leaves the
\* account's followers, following, followersCount, followingCount,
\* postsCount and phone as they were and changes no other account.
C38_UpdateProfileKeepsRelationships ==
  [][\A r \in SeqSlots :
       (ureq[r].pc = "update" /\ ureq'[r].pc # "update")
         => /\ \A f \in Protected :
                 users'[ureq[r].actor][f] = users[ureq[r].actor][f]
            /\ \A u \in Users \ {ureq[r].actor} : users'[u] = users[u]]_vars

\* C39: no comment exists on a post whose commentsEnabled flag is false.
C39_NoCommentWhereDisabled ==
  \A c \in DOMAIN comments :
    Found(posts, comments[c].post) => posts[comments[c].post].commentsEnabled

\* C40: every reply belongs to the post of its parent comment.
C40_ReplyOnParentsPost ==
  \A c \in DOMAIN comments :
    comments[c].parentComment # NoComment =>
      comments[c].post = comments[comments[c].parentComment].post

====
